---- MODULE Spec2Model ----
(***************************************************************************)
(* Termine in Recklinghausen: the reconciliation step of app.py.           *)
(*                                                                         *)
(* main() collects the events (Termin) of one month, removes duplicates    *)
(* with entferne_duplikate and sorts the rest with list.sort(), which      *)
(* uses Termin.__lt__.  The model keeps the collected list `termine`       *)
(* unchanged and represents the list main() works on as `ergebnis`, a      *)
(* sequence of positions of `termine` (Python keeps object identity; a     *)
(* position identifies the object).  `anfrage` is the month main() works   *)
(* on, `monate_liste` and `idx` its list of months and the place in it,    *)
(* `netz` what the sources answer, `ablauf` the calls main() has made, and *)
(* `lokal` the invocations of adapters that are followed step by step,     *)
(* each with the state of its local variables.                             *)
(*                                                                         *)
(* Texts that are compared character by character (name, uhrzeit) are      *)
(* sequences of one-character strings.  The non-ASCII characters of the    *)
(* source are written as the tokens "ae" (a umlaut), "e'" (e acute) and    *)
(* "--" (en dash).                                                         *)
(***************************************************************************)
EXTENDS Integers, Sequences, FiniteSets, TLC

VARIABLES termine, ergebnis, pc, anfrage, netz, monate_liste, idx, ablauf, lokal

vars == <<termine, ergebnis, pc, anfrage, netz, monate_liste, idx, ablauf, lokal>>

-----------------------------------------------------------------------------
(* Characters: code points (ord), classes of the regular expressions \w    *)
(* and \s, and str.lower().                                                *)

Zeichentabelle ==
    << <<" ", 32>>, <<"!", 33>>, <<"&", 38>>, <<"-", 45>>, <<"/", 47>>,
       <<"0", 48>>, <<"1", 49>>, <<"2", 50>>, <<"3", 51>>, <<"4", 52>>,
       <<"5", 53>>, <<"6", 54>>, <<"7", 55>>, <<"8", 56>>, <<"9", 57>>,
       <<":", 58>>, <<";", 59>>, <<"A", 65>>, <<"B", 66>>, <<"C", 67>>,
       <<"N", 78>>, <<"U", 85>>, <<"W", 87>>, <<"_", 95>>, <<"a", 97>>,
       <<"b", 98>>, <<"c", 99>>, <<"d", 100>>, <<"e", 101>>, <<"f", 102>>,
       <<"g", 103>>, <<"h", 104>>, <<"i", 105>>, <<"j", 106>>, <<"k", 107>>,
       <<"l", 108>>, <<"m", 109>>, <<"n", 110>>, <<"o", 111>>, <<"p", 112>>,
       <<"q", 113>>, <<"r", 114>>, <<"s", 115>>, <<"t", 116>>, <<"u", 117>>,
       <<"v", 118>>, <<"w", 119>>, <<"x", 120>>, <<"y", 121>>, <<"z", 122>>,
       <<"|", 124>>, <<"ae", 228>>, <<"e'", 233>>, <<"--", 8211>> >>

Zeichen == {Zeichentabelle[i][1] : i \in 1..Len(Zeichentabelle)}

ord == [c \in Zeichen |->
          (CHOOSE i \in 1..Len(Zeichentabelle) : Zeichentabelle[i][1] = c)]

Codepunkt == [c \in Zeichen |-> Zeichentabelle[ord[c]][2]]

Grossbuchstaben == {c \in Zeichen : Codepunkt[c] >= 65 /\ Codepunkt[c] <= 90}

Kleinbuchstaben ==
    {c \in Zeichen : \/ Codepunkt[c] >= 97 /\ Codepunkt[c] <= 122
                     \/ Codepunkt[c] >= 228 /\ Codepunkt[c] <= 255}

Ziffern == {c \in Zeichen : Codepunkt[c] >= 48 /\ Codepunkt[c] <= 57}

\* \s of the re module
Leerraum == {" "}

\* \w of the re module: letters, digits and the underscore
Wortzeichen == Grossbuchstaben \cup Kleinbuchstaben \cup Ziffern \cup {"_"}

\* str.lower() on one character
lower_zeichen(c) ==
    IF c \in Grossbuchstaben
    THEN CHOOSE d \in Zeichen : Codepunkt[d] = Codepunkt[c] + 32
    ELSE c

\* str.lower()
lower(s) == [i \in 1..Len(s) |-> lower_zeichen(s[i])]

\* str.strip(): leading and trailing whitespace removed
RECURSIVE lstrip(_)
lstrip(s) == IF s # <<>> /\ Head(s) \in Leerraum THEN lstrip(Tail(s)) ELSE s

RECURSIVE rstrip(_)
rstrip(s) ==
    IF s # <<>> /\ s[Len(s)] \in Leerraum THEN rstrip(SubSeq(s, 1, Len(s) - 1)) ELSE s

strip(s) == rstrip(lstrip(s))

\* re.sub(r'[^\w\s]', '', name)
OhneSonderzeichen(s) == SelectSeq(s, LAMBDA c : c \in Wortzeichen \cup Leerraum)

\* re.sub(r'\s+', ' ', name): every maximal run of whitespace becomes one blank
RECURSIVE LeerraumVerdichtet(_)
LeerraumVerdichtet(s) ==
    IF s = <<>> THEN <<>>
    ELSE IF Head(s) \in Leerraum
         THEN <<" ">> \o LeerraumVerdichtet(lstrip(s))
         ELSE <<Head(s)>> \o LeerraumVerdichtet(Tail(s))

_normalisiere(name) == LeerraumVerdichtet(OhneSonderzeichen(strip(lower(name))))

\* Python's `a in b` on strings
IstTeilstring(a, b) ==
    \E i \in 0..(Len(b) - Len(a)) : SubSeq(b, i + 1, i + Len(a)) = a

\* Python's `a < b` on strings: lexicographic by code point
RECURSIVE TextKleiner(_, _)
TextKleiner(a, b) ==
    IF b = <<>> THEN FALSE
    ELSE IF a = <<>> THEN TRUE
    ELSE IF Head(a) # Head(b) THEN Codepunkt[Head(a)] < Codepunkt[Head(b)]
    ELSE TextKleiner(Tail(a), Tail(b))

-----------------------------------------------------------------------------
(* Termin and its order.                                                   *)

GANZTAEGIG == <<"g", "a", "n", "z", "t", "ae", "g", "i", "g">>

SIEHE_WEBSITE == <<"s", "i", "e", "h", "e", " ", "W", "e", "b", "s", "i", "t", "e">>

\* datetime comparison
DatumKleiner(a, b) ==
    LET ta == <<a.jahr, a.monat, a.tag, a.stunde, a.minute>>
        tb == <<b.jahr, b.monat, b.tag, b.stunde, b.minute>>
    IN \E i \in 1..5 : ta[i] < tb[i] /\ \A j \in 1..(i - 1) : ta[j] = tb[j]

\* variant: (datum, name) < (datum, name)
Termin_lt_ohne_uhrzeit(s, o) ==
    \/ DatumKleiner(s.datum, o.datum)
    \/ s.datum = o.datum /\ TextKleiner(s.name, o.name)

\* Termin.__lt__: (datum, uhrzeit, name) < (datum, uhrzeit, name)
Termin_lt(s, o) ==
    \/ DatumKleiner(s.datum, o.datum)
    \/ /\ s.datum = o.datum
       /\ \/ TextKleiner(s.uhrzeit, o.uhrzeit)
          \/ s.uhrzeit = o.uhrzeit /\ TextKleiner(s.name, o.name)

\* variant: only 'ganztägig' counts as a placeholder
_termin_score_ein_platzhalter(t) ==
      (IF t.link # "" THEN 2 ELSE 0)
    + (IF t.uhrzeit # <<>> /\ t.uhrzeit # GANZTAEGIG THEN 2 ELSE 0)
    + (IF t.beschreibung # "" THEN 1 ELSE 0)
    + (IF t.ort # "" THEN 1 ELSE 0)

_termin_score(t) ==
      (IF t.link # "" THEN 2 ELSE 0)
    + (IF t.uhrzeit # <<>> /\ t.uhrzeit \notin {GANZTAEGIG, SIEHE_WEBSITE} THEN 2 ELSE 0)
    + (IF t.beschreibung # "" THEN 1 ELSE 0)
    + (IF t.ort # "" THEN 1 ELSE 0)

-----------------------------------------------------------------------------
(* entferne_duplikate                                                      *)

\* variant: strftime('%Y-%m')
DatumKey_nur_monat(t) == <<t.datum.jahr, t.datum.monat, 0>>

\* variant: strftime('%d'), the day of the month alone
DatumKey_nur_tag(t) == <<0, 0, t.datum.tag>>

\* t.datum.strftime('%Y-%m-%d'): zero-padded, so the order of the strings is
\* the order of the triples
DatumKey(t) == <<t.datum.jahr, t.datum.monat, t.datum.tag>>

KeyKleiner(a, b) ==
    \E i \in 1..3 : a[i] < b[i] /\ \A j \in 1..(i - 1) : a[j] = b[j]

\* variant: an event is filed under every day of its month
nach_datum_monat(ts, key) ==
    SelectSeq([i \in 1..Len(ts) |-> i],
              LAMBDA i : DatumKey(ts[i])[1] = key[1] /\ DatumKey(ts[i])[2] = key[2])

\* nach_datum[key]: the positions of the events of that day, in input order
nach_datum(ts, key) ==
    SelectSeq([i \in 1..Len(ts) |-> i], LAMBDA i : DatumKey(ts[i]) = key)

\* sorted(nach_datum)
RECURSIVE SortierteKeys(_)
SortierteKeys(S) ==
    IF S = {} THEN <<>>
    ELSE LET k == CHOOSE x \in S : \A y \in S : ~KeyKleiner(y, x)
         IN <<k>> \o SortierteKeys(S \ {k})

\* variant: the group is not ordered by score (first seen wins)
ScoreKey_ohne_score(t) == 0

\* variant: ascending instead of descending score
ScoreKey_aufsteigend(t) == _termin_score(t)

\* variant: an event with a category is preferred
ScoreKey_mit_kategorie(t) ==
    0 - (_termin_score(t) + (IF t.kategorie # "" THEN 1 ELSE 0))

\* the key of gruppe.sort: lambda t: -_termin_score(t)
ScoreKey(t) == 0 - _termin_score(t)

\* variant: ties are reversed, as by sorted(gruppe, key=score)[::-1]
RECURSIVE GruppeSortiert_umgekehrt(_, _)
GruppeSortiert_umgekehrt(ts, g) ==
    IF g = <<>> THEN <<>>
    ELSE LET s == GruppeSortiert_umgekehrt(ts, SubSeq(g, 1, Len(g) - 1))
             x == g[Len(g)]
             p == Cardinality({j \in 1..Len(s) : ScoreKey(ts[s[j]]) < ScoreKey(ts[x])})
         IN SubSeq(s, 1, p) \o <<x>> \o SubSeq(s, p + 1, Len(s))

\* variant: the group stays in the order of the input
GruppeSortiert_eingabe(ts, g) == g

\* gruppe.sort(key=...): stable, so an element goes behind every element
\* whose key is not greater than its own
RECURSIVE GruppeSortiert(_, _)
GruppeSortiert(ts, g) ==
    IF g = <<>> THEN <<>>
    ELSE LET s == GruppeSortiert(ts, SubSeq(g, 1, Len(g) - 1))
             x == g[Len(g)]
             p == Cardinality({j \in 1..Len(s) :
                                 ~(ScoreKey(ts[x]) < ScoreKey(ts[s[j]]))})
         IN SubSeq(s, 1, p) \o <<x>> \o SubSeq(s, p + 1, Len(s))

\* variant: only `norm_v in norm_k` is tested besides equality
IstDuplikat_einseitig(norm_k, norm_v) ==
    norm_k = norm_v \/ IstTeilstring(norm_v, norm_k)

\* variant: containment is not tested
IstDuplikat_nur_gleich(norm_k, norm_v) == norm_k = norm_v

\* variant: `or norm_k or` in place of `or norm_k in norm_v or`
IstDuplikat_wahrheitswert(norm_k, norm_v) ==
    norm_k = norm_v \/ norm_k # <<>> \/ IstTeilstring(norm_v, norm_k)

\* the test of the inner loop
IstDuplikat(norm_k, norm_v) ==
    norm_k = norm_v \/ IstTeilstring(norm_k, norm_v) \/ IstTeilstring(norm_v, norm_k)

\* variant: a candidate is compared with the last kept event only
RECURSIVE Behalten_nur_letzter(_, _, _)
Behalten_nur_letzter(ts, gruppe, behalten) ==
    IF gruppe = <<>> THEN behalten
    ELSE LET kandidat == Head(gruppe)
             norm_k == _normalisiere(ts[kandidat].name)
             ist_duplikat ==
                 /\ behalten # <<>>
                 /\ IstDuplikat(norm_k, _normalisiere(ts[behalten[Len(behalten)]].name))
         IN Behalten_nur_letzter(ts, Tail(gruppe),
                IF ist_duplikat THEN behalten ELSE Append(behalten, kandidat))

\* the loop over the candidates of one day
RECURSIVE Behalten(_, _, _)
Behalten(ts, gruppe, behalten) ==
    IF gruppe = <<>> THEN behalten
    ELSE LET kandidat == Head(gruppe)
             norm_k == _normalisiere(ts[kandidat].name)
             ist_duplikat ==
                 \E j \in 1..Len(behalten) :
                    IstDuplikat(norm_k, _normalisiere(ts[behalten[j]].name))
         IN Behalten(ts, Tail(gruppe),
                     IF ist_duplikat THEN behalten ELSE Append(behalten, kandidat))

RECURSIVE ErgebnisUeber(_, _)
ErgebnisUeber(ts, keys) ==
    IF keys = <<>> THEN <<>>
    ELSE Behalten(ts, GruppeSortiert(ts, nach_datum(ts, Head(keys))), <<>>)
         \o ErgebnisUeber(ts, Tail(keys))

\* variant: the empty list is answered by a list holding a placeholder
entferne_duplikate_platzhalter(ts) ==
    IF ts = <<>> THEN <<0>>
    ELSE ErgebnisUeber(ts, SortierteKeys({DatumKey(ts[i]) : i \in 1..Len(ts)}))

\* the positions of the retained events, in the order of the returned list
entferne_duplikate(ts) ==
    ErgebnisUeber(ts, SortierteKeys({DatumKey(ts[i]) : i \in 1..Len(ts)}))

\* alle_termine.sort(): stable, by Termin.__lt__
RECURSIVE sort(_, _)
sort(ts, l) ==
    IF l = <<>> THEN <<>>
    ELSE LET s == sort(ts, SubSeq(l, 1, Len(l) - 1))
             x == l[Len(l)]
             p == Cardinality({j \in 1..Len(s) : ~Termin_lt(ts[x], ts[s[j]])})
         IN SubSeq(s, 1, p) \o <<x>> \o SubSeq(s, p + 1, Len(s))

\* the events at the positions l
Liste(ts, l) == [i \in 1..Len(l) |-> ts[l[i]]]

-----------------------------------------------------------------------------
(* Inputs                                                                  *)

MaxTermine == 3

\* the requested month: December 2025
Ziel == [jahr |-> 2025, monat |-> 12]

Datum(tag, stunde) ==
    [jahr |-> Ziel.jahr, monat |-> Ziel.monat, tag |-> tag, stunde |-> stunde, minute |-> 0]

Termin(name, datum, uhrzeit, ort, link, beschreibung, quelle, kategorie) ==
    [name |-> name, datum |-> datum, uhrzeit |-> uhrzeit, ort |-> ort, link |-> link,
     beschreibung |-> beschreibung, quelle |-> quelle, kategorie |-> kategorie]

Folgen(U, n) == UNION {[1..k -> U] : k \in 0..n}

Tage == {6, 7}

Namen == {<<>>, <<"a">>, <<"b">>, <<"a", "b">>}

Links == {"", "https://example.org/e"}

\* events inside the requested month and one month later (January 2026), on
\* the same day of the month
NEUJAHR == [jahr |-> Ziel.jahr + 1, monat |-> 1]

Monate == {Ziel, NEUJAHR}

DatumIn(m, tag) ==
    [jahr |-> m.jahr, monat |-> m.monat, tag |-> tag, stunde |-> 0, minute |-> 0]

NamenAusserhalb == {<<"a">>, <<"b">>, <<"a", "b">>}

UniversumAusserhalb ==
    {Termin(n, DatumIn(m, 6), SIEHE_WEBSITE, "", l, "", "regioactive", "") :
        n \in NamenAusserhalb, m \in Monate, l \in Links}

\* events that differ in name, day and score
Universum ==
    {Termin(n, Datum(t, 0), SIEHE_WEBSITE, "", l, "", "regioactive", "") :
        n \in Namen, t \in Tage, l \in Links}

\* events that differ in source, score and spelling of the name
Quellen == {"regioactive", "stadt-re"}

NamenJeQuelle == {<<"a">>, <<"A">>, <<"b">>}

UniversumQuellen ==
    {Termin(n, Datum(t, 0), SIEHE_WEBSITE, "", l, "", q, "") :
        n \in NamenJeQuelle, t \in Tage, l \in Links, q \in Quellen}

\* events of one day that differ in name, score, source and category
Kategorien == {"", "Konzert"}

NamenKategorien == {<<"a">>, <<"a", "b">>}

UniversumKategorien ==
    {Termin(n, Datum(6, 0), SIEHE_WEBSITE, "", l, "", q, k) :
        n \in NamenKategorien, l \in Links, q \in Quellen, k \in Kategorien}

\* events that differ in day, time of day, time label and name
UHR_19 == <<"1", "9", ":", "0", "0", " ", "U", "h", "r">>

Stunden == {0, 19}

Zeitangaben == {SIEHE_WEBSITE, UHR_19}

NamenSortierung == {<<"a">>, <<"B">>}

UniversumSortierung ==
    {Termin(n, Datum(t, h), u, "", "", "", "regioactive", "") :
        n \in NamenSortierung, t \in Tage, h \in Stunden, u \in Zeitangaben}

\* events that differ in each of the four scored fields and, independently,
\* in the fields that are not scored
Uhrzeiten == {<<>>, GANZTAEGIG, SIEHE_WEBSITE, UHR_19}

Texte == {"", "Ruhrfestspielhaus"}

Uebrige ==
    {[name |-> <<"a">>, datum |-> Datum(6, 0), quelle |-> "regioactive", kategorie |-> ""],
     [name |-> <<"b">>, datum |-> Datum(7, 19), quelle |-> "stadt-re", kategorie |-> "Konzert"]}

UniversumPunkte ==
    {Termin(r.name, r.datum, u, o, l, b, r.quelle, r.kategorie) :
        r \in Uebrige, u \in Uhrzeiten, o \in Texte, l \in Links, b \in Texte}

\* titles (a letter first, no whitespace at the end) over a small alphabet of
\* letters, punctuation and whitespace, and the two names "Nacht-Cafe!!" and
\* "nacht cafe" (with e acute)
MaxNameLen == 3

Alphabet == {"a", "A", "-", " "}

NACHT_CAFE_1 == <<"N", "a", "c", "h", "t", "-", "C", "a", "f", "e'", "!", "!">>

NACHT_CAFE_2 == <<"n", "a", "c", "h", "t", " ", "c", "a", "f", "e'">>

NamenSchreibweisen ==
    {n \in Folgen(Alphabet, MaxNameLen) :
        n # <<>> /\ n[1] \in Wortzeichen /\ n[Len(n)] \notin Leerraum}
    \cup {NACHT_CAFE_1, NACHT_CAFE_2}

UniversumSchreibweisen ==
    {Termin(n, Datum(6, 0), SIEHE_WEBSITE, "", "", "", "regioactive", "") :
        n \in NamenSchreibweisen}

-----------------------------------------------------------------------------
(* scraper.py: what the adapters hole_* read and how they turn it into     *)
(* events.  An Eintrag holds the texts of one event entry of a source as   *)
(* the adapter's extraction finds them (JSON value, text of an element,    *)
(* regular-expression group); an Antwort is what the network gives to one  *)
(* call of an adapter.                                                     *)

\* the title text, the date as written (jahr is read only by the adapters
\* whose source writes a year), the start time <<h, m>> as written or <<>> if
\* the source gives none, likewise the end time, the text of the venue, the
\* address of the event's page and the text of the description
Eintrag(name, jahr, monat, tag, zeit, ende, ort, link, beschreibung) ==
    [name |-> name, jahr |-> jahr, monat |-> monat, tag |-> tag, zeit |-> zeit,
     ende |-> ende, ort |-> ort, link |-> link, beschreibung |-> beschreibung]

\* fehler: requests raises RequestException (or the status is not 200);
\* wurzel: the payload is no JSON / no readable document ("unlesbar"), a JSON
\* object ("objekt") or a JSON array ("liste"); header_jahr: the year in the
\* header of a week page
Antwort(fehler, wurzel, header_jahr, eintraege) ==
    [fehler |-> fehler, wurzel |-> wurzel, header_jahr |-> header_jahr,
     eintraege |-> eintraege]

\* what a call gives to its caller: a list, or an exception
Rueckgabe(liste) == [ausnahme |-> FALSE, liste |-> liste]

AUSNAHME == [ausnahme |-> TRUE, liste |-> <<>>]

\* calendar.monthrange(jahr, monat)[1]
monthrange(jahr, monat) ==
    IF monat = 2
    THEN (IF jahr % 4 = 0 /\ (jahr % 100 # 0 \/ jahr % 400 = 0) THEN 29 ELSE 28)
    ELSE IF monat \in {4, 6, 9, 11} THEN 30 ELSE 31

\* datetime(jahr, monat, tag, stunde, minute) does not raise ValueError
GueltigesDatum(jahr, monat, tag) ==
    /\ jahr \in 1..9999
    /\ monat \in 1..12
    /\ tag \in 1..monthrange(jahr, monat)

GueltigeZeit(stunde, minute) == stunde \in 0..23 /\ minute \in 0..59

datetime(jahr, monat, tag, stunde, minute) ==
    [jahr |-> jahr, monat |-> monat, tag |-> tag, stunde |-> stunde, minute |-> minute]

\* variant: only the month is compared
_im_monat_nur_monat(datum, jahr, monat) == datum.monat = monat

_im_monat(datum, jahr, monat) == datum.jahr = jahr /\ datum.monat = monat

\* the digit d as a character
Ziffer(d) == CHOOSE c \in Zeichen : Codepunkt[c] = Codepunkt["0"] + d

\* f"{n:02d}"
Zweistellig(n) == <<Ziffer((n \div 10) % 10), Ziffer(n % 10)>>

\* 'HH:MM'
ZeitText(zeit) == Zweistellig(zeit[1]) \o <<":">> \o Zweistellig(zeit[2])

UHR == <<" ", "U", "h", "r">>

\* s[:n]
Gekuerzt(s, n) == SubSeq(s, 1, IF Len(s) < n THEN Len(s) ELSE n)

\* the events of the entries, in the order of the entries
RECURSIVE Ereignisse(_, _)
Ereignisse(je_eintrag(_), eintraege) ==
    IF eintraege = <<>> THEN <<>>
    ELSE je_eintrag(Head(eintraege)) \o Ereignisse(je_eintrag, Tail(eintraege))

\* start time of an entry, 00:00 if it has none
Stunde(e) == IF e.zeit = <<>> THEN 0 ELSE e.zeit[1]

Minute(e) == IF e.zeit = <<>> THEN 0 ELSE e.zeit[2]

\* 'recklinghausen' in stadt.lower(), for the spellings of the model
NenntRecklinghausen(stadt) ==
    \E i \in 1..Len(stadt) :
        SubSeq(stadt, i, i + 13) \in {"Recklinghausen", "recklinghausen"}

\* kat_map.get(path, '') of hole_regioactive, for the path 'konzert'
Kategorie_regioactive(link) ==
    IF \E i \in 1..Len(link) : SubSeq(link, i, i + 22) = "regioactive.de/konzert/"
    THEN "Konzert" ELSE ""

\* hole_regioactive: one element of itemListElement
regioactive_event(e, jahr, monat) ==
    LET name == strip(e.name)
        datum == datetime(e.jahr, e.monat, e.tag, Stunde(e), Minute(e))
        uhrzeit == IF datum.stunde # 0 \/ datum.minute # 0
                   THEN ZeitText(<<datum.stunde, datum.minute>>) \o UHR
                   ELSE GANZTAEGIG
    IN IF name = <<>> THEN <<>>
       ELSE IF ~GueltigesDatum(e.jahr, e.monat, e.tag) THEN <<>>
       ELSE IF ~GueltigeZeit(Stunde(e), Minute(e)) THEN <<>>
       ELSE IF ~_im_monat(datum, jahr, monat) THEN <<>>
       ELSE << Termin(Gekuerzt(name, 150), datum, uhrzeit, Gekuerzt(e.ort, 150), e.link,
                      Gekuerzt(e.beschreibung, 300), "regioactive",
                      Kategorie_regioactive(e.link)) >>

hole_regioactive(antwort, jahr, monat) ==
    IF antwort.fehler THEN Rueckgabe(<<>>)
    ELSE IF antwort.wurzel = "unlesbar" THEN Rueckgabe(<<>>)
    ELSE IF antwort.wurzel = "liste" THEN AUSNAHME
    ELSE Rueckgabe(Ereignisse(LAMBDA e : regioactive_event(e, jahr, monat),
                              antwort.eintraege))

\* hole_stadt_re: one row of the table
stadt_re_zeile(e, jahr, monat) ==
    LET name == strip(e.name)
        datum == datetime(e.jahr, e.monat, e.tag, 0, 0)
    IN IF name = <<>> THEN <<>>
       ELSE IF ~GueltigesDatum(e.jahr, e.monat, e.tag) THEN <<>>
       ELSE IF ~_im_monat(datum, jahr, monat) THEN <<>>
       ELSE << Termin(Gekuerzt(name, 150), datum, SIEHE_WEBSITE, "Recklinghausen",
                      e.link, "", "stadt-re", "") >>

hole_stadt_re(antwort, jahr, monat) ==
    IF antwort.fehler THEN Rueckgabe(<<>>)
    ELSE Rueckgabe(Ereignisse(LAMBDA e : stadt_re_zeile(e, jahr, monat),
                              antwort.eintraege))

\* hole_altstadtschmiede: one script element; the time is the one written in
\* the description
altstadtschmiede_event(e, jahr, monat) ==
    LET name == strip(e.name)
        tag == datetime(e.jahr, e.monat, e.tag, 0, 0)
        datum == IF e.zeit # <<>> /\ GueltigeZeit(e.zeit[1], e.zeit[2])
                 THEN datetime(e.jahr, e.monat, e.tag, e.zeit[1], e.zeit[2])
                 ELSE tag
        uhrzeit == IF e.zeit # <<>> THEN ZeitText(e.zeit) \o UHR ELSE SIEHE_WEBSITE
    IN IF name = <<>> THEN <<>>
       ELSE IF ~GueltigesDatum(e.jahr, e.monat, e.tag) THEN <<>>
       ELSE IF ~_im_monat(tag, jahr, monat) THEN <<>>
       ELSE << Termin(Gekuerzt(name, 150), datum, uhrzeit, "Altstadtschmiede",
                      IF e.link # "" THEN e.link
                      ELSE "https://www.altstadtschmiede.de/aktuelle-veranstaltungen",
                      Gekuerzt(e.beschreibung, 200), "altstadtschmiede", "Kultur") >>

hole_altstadtschmiede(antwort, jahr, monat) ==
    IF antwort.fehler THEN Rueckgabe(<<>>)
    ELSE IF antwort.wurzel = "unlesbar" THEN Rueckgabe(<<>>)
    ELSE IF antwort.wurzel = "liste" THEN AUSNAHME
    ELSE Rueckgabe(Ereignisse(LAMBDA e : altstadtschmiede_event(e, jahr, monat),
                              antwort.eintraege))

\* hole_vesterleben: one link element; e.ort is the town of the entry
vesterleben_eintrag(e, jahr, monat) ==
    LET name == strip(e.name)
        tag == datetime(e.jahr, e.monat, e.tag, 0, 0)
        datum == IF e.zeit # <<>> /\ GueltigeZeit(e.zeit[1], e.zeit[2])
                 THEN datetime(e.jahr, e.monat, e.tag, e.zeit[1], e.zeit[2])
                 ELSE tag
        uhrzeit == IF e.zeit # <<>> THEN ZeitText(e.zeit) \o UHR ELSE SIEHE_WEBSITE
    IN IF name = <<>> THEN <<>>
       ELSE IF ~GueltigesDatum(e.jahr, e.monat, e.tag) THEN <<>>
       ELSE IF e.ort # "" /\ ~NenntRecklinghausen(e.ort) THEN <<>>
       ELSE IF ~_im_monat(tag, jahr, monat) THEN <<>>
       ELSE << Termin(Gekuerzt(name, 150), datum, uhrzeit,
                      IF e.ort # "" THEN e.ort ELSE "Recklinghausen",
                      e.link, "", "vesterleben", "") >>

hole_vesterleben(antwort, jahr, monat) ==
    IF antwort.fehler THEN Rueckgabe(<<>>)
    ELSE Rueckgabe(Ereignisse(LAMBDA e : vesterleben_eintrag(e, jahr, monat),
                              antwort.eintraege))

\* hole_sternwarte: one paragraph; the source writes day, month name and time
\* but no year
sternwarte_absatz(e, jahr, monat) ==
    LET name == strip(e.name)
    IN IF e.zeit = <<>> THEN <<>>
       ELSE IF e.monat # monat THEN <<>>
       ELSE IF ~GueltigesDatum(jahr, e.monat, e.tag) THEN <<>>
       ELSE IF ~GueltigeZeit(e.zeit[1], e.zeit[2]) THEN <<>>
       ELSE IF name = <<>> THEN <<>>
       ELSE << Termin(Gekuerzt(name, 150),
                      datetime(jahr, e.monat, e.tag, e.zeit[1], e.zeit[2]),
                      ZeitText(e.zeit) \o UHR,
                      Gekuerzt(IF e.ort # "" THEN e.ort ELSE "Sternwarte", 150),
                      "https://sternwarte-recklinghausen.de/programm/veranstaltungskalender/",
                      Gekuerzt(e.beschreibung, 200), "sternwarte", "Astronomie") >>

hole_sternwarte(antwort, jahr, monat) ==
    IF antwort.fehler THEN Rueckgabe(<<>>)
    ELSE Rueckgabe(Ereignisse(LAMBDA e : sternwarte_absatz(e, jahr, monat),
                              antwort.eintraege))

\* the time label of a start time with a dash behind it and, if the source
\* gives one, an end time: 'HH:MM-HH:MM Uhr' with an en dash, or 'HH:MM Uhr'
Zeitspanne(e) ==
    IF e.ende # <<>> THEN ZeitText(e.zeit) \o <<"--">> \o ZeitText(e.ende) \o UHR
    ELSE ZeitText(e.zeit) \o UHR

\* hole_kunsthalle: a date line 'DD.MM.' and the lines after it; an entry
\* without a title is a date line at the end of the text
kunsthalle_block(e, jahr, monat) ==
    LET name == strip(e.name)
        tag == datetime(jahr, e.monat, e.tag, 0, 0)
        datum == IF e.zeit # <<>> /\ GueltigeZeit(e.zeit[1], e.zeit[2])
                 THEN datetime(jahr, e.monat, e.tag, e.zeit[1], e.zeit[2])
                 ELSE tag
    IN IF e.monat # monat THEN <<>>
       ELSE IF ~GueltigesDatum(jahr, e.monat, e.tag) THEN <<>>
       ELSE IF name = <<>> THEN <<>>
       ELSE << Termin(Gekuerzt(name, 150), datum,
                      IF e.zeit # <<>> THEN Zeitspanne(e) ELSE SIEHE_WEBSITE,
                      "Kunsthalle Recklinghausen",
                      "https://kunsthalle-recklinghausen.de/en/program/calendar",
                      IF e.zeit # <<>> THEN Gekuerzt(e.beschreibung, 200) ELSE "",
                      "kunsthalle", "Kunst") >>

hole_kunsthalle(antwort, jahr, monat) ==
    IF antwort.fehler THEN Rueckgabe(<<>>)
    ELSE Rueckgabe(Ereignisse(LAMBDA e : kunsthalle_block(e, jahr, monat),
                              antwort.eintraege))

\* hole_stadtbibliothek: the entry reaches datum.replace(hour=h, minute=m)
stadtbibliothek_zeit_gelesen(e, jahr, monat) ==
    /\ strip(e.name) # <<>>
    /\ GueltigesDatum(e.jahr, e.monat, e.tag)
    /\ _im_monat(datetime(e.jahr, e.monat, e.tag, 0, 0), jahr, monat)
    /\ e.zeit # <<>>

\* hole_stadtbibliothek: one div.selfdb_reportentry
stadtbibliothek_eintrag(e, jahr, monat) ==
    LET name == strip(e.name)
        tag == datetime(e.jahr, e.monat, e.tag, 0, 0)
    IN IF name = <<>> THEN <<>>
       ELSE IF ~GueltigesDatum(e.jahr, e.monat, e.tag) THEN <<>>
       ELSE IF ~_im_monat(tag, jahr, monat) THEN <<>>
       ELSE << Termin(Gekuerzt(name, 150),
                      datetime(e.jahr, e.monat, e.tag, Stunde(e), Minute(e)),
                      IF e.zeit # <<>> THEN ZeitText(e.zeit) \o UHR ELSE SIEHE_WEBSITE,
                      Gekuerzt(IF e.ort # "" THEN e.ort ELSE "Stadtbibliothek", 150),
                      e.link, "", "stadtbibliothek", "Bibliothek") >>

\* datum.replace raises ValueError outside a try block
hole_stadtbibliothek(antwort, jahr, monat) ==
    IF antwort.fehler THEN Rueckgabe(<<>>)
    ELSE IF \E i \in 1..Len(antwort.eintraege) :
               /\ stadtbibliothek_zeit_gelesen(antwort.eintraege[i], jahr, monat)
               /\ ~GueltigeZeit(antwort.eintraege[i].zeit[1], antwort.eintraege[i].zeit[2])
    THEN AUSNAHME
    ELSE Rueckgabe(Ereignisse(LAMBDA e : stadtbibliothek_eintrag(e, jahr, monat),
                              antwort.eintraege))

\* _hole_events_calendar: one event of the JSON-LD data; a start whose time
\* part fromisoformat rejects is read again as a date
events_calendar_event(e, url, quelle, kategorie, jahr, monat) ==
    LET name == strip(e.name)
        datum == IF GueltigeZeit(Stunde(e), Minute(e))
                 THEN datetime(e.jahr, e.monat, e.tag, Stunde(e), Minute(e))
                 ELSE datetime(e.jahr, e.monat, e.tag, 0, 0)
        uhrzeit == IF datum.stunde # 0 \/ datum.minute # 0
                   THEN ZeitText(<<datum.stunde, datum.minute>>) \o UHR
                   ELSE SIEHE_WEBSITE
    IN IF name = <<>> THEN <<>>
       ELSE IF ~GueltigesDatum(e.jahr, e.monat, e.tag) THEN <<>>
       ELSE IF ~_im_monat(datum, jahr, monat) THEN <<>>
       ELSE << Termin(Gekuerzt(name, 150), datum, uhrzeit,
                      IF Gekuerzt(e.ort, 150) # "" THEN Gekuerzt(e.ort, 150)
                      ELSE "Recklinghausen",
                      IF e.link # "" THEN e.link ELSE url,
                      Gekuerzt(e.beschreibung, 300), quelle, kategorie) >>

\* a JSON array is taken as the list of the events
_hole_events_calendar(antwort, url, quelle, kategorie, jahr, monat) ==
    IF antwort.fehler THEN Rueckgabe(<<>>)
    ELSE IF antwort.wurzel = "unlesbar" THEN Rueckgabe(<<>>)
    ELSE Rueckgabe(Ereignisse(
             LAMBDA e : events_calendar_event(e, url, quelle, kategorie, jahr, monat),
             antwort.eintraege))

hole_nlgr(antwort, jahr, monat) ==
    _hole_events_calendar(antwort, "https://nlgr.de/veranstaltungen/", "nlgr",
                          "Literatur", jahr, monat)

hole_literaturtage(antwort, jahr, monat) ==
    _hole_events_calendar(antwort, "https://literaturtage-recklinghausen.de/veranstaltungen/",
                          "literaturtage", "Literatur", jahr, monat)

\* html.unescape, for the entity &amp;: a text without '&' stays as it is
RECURSIVE unescape(_)
unescape(s) ==
    IF \A i \in 1..Len(s) : s[i] # "&" THEN s
    ELSE IF Len(s) >= 5 /\ SubSeq(s, 1, 5) = <<"&", "a", "m", "p", ";">>
         THEN <<"&">> \o unescape(SubSeq(s, 6, Len(s)))
         ELSE <<Head(s)>> \o unescape(Tail(s))

\* the events whose key was not seen before, in their order
RECURSIVE Einmalig(_, _, _)
Einmalig(key(_), ts, gesehen) ==
    IF ts = <<>> THEN <<>>
    ELSE IF key(Head(ts)) \in gesehen THEN Einmalig(key, Tail(ts), gesehen)
    ELSE <<Head(ts)>> \o Einmalig(key, Tail(ts), gesehen \cup {key(Head(ts))})

hole_backyard(antwort, jahr, monat) ==
    LET r == _hole_events_calendar(antwort, "https://backyard-club.de/events", "backyard",
                                   "Musik", jahr, monat)
        termine_ == [i \in 1..Len(r.liste) |->
                        [r.liste[i] EXCEPT !.name = unescape(r.liste[i].name)]]
    IN IF r.ausnahme THEN AUSNAHME
       ELSE Rueckgabe(Einmalig(LAMBDA t : <<t.name, t.datum>>, termine_, {}))

\* hole_akademie: one card
akademie_karte(e, jahr, monat) ==
    LET name == strip(e.name)
        datum == datetime(e.jahr, e.monat, e.tag, 0, 0)
    IN IF ~GueltigesDatum(e.jahr, e.monat, e.tag) THEN <<>>
       ELSE IF ~_im_monat(datum, jahr, monat) THEN <<>>
       ELSE IF name = <<>> THEN <<>>
       ELSE << Termin(Gekuerzt(name, 150), datum, SIEHE_WEBSITE,
                      "Ev. Akademie Recklinghausen", e.link,
                      Gekuerzt(e.beschreibung, 200), "akademie", "Bildung") >>

hole_akademie(antwort, jahr, monat) ==
    IF antwort.fehler THEN Rueckgabe(<<>>)
    ELSE Rueckgabe(Ereignisse(LAMBDA e : akademie_karte(e, jahr, monat),
                              antwort.eintraege))

Beginnt(s, anfang) == Len(s) >= Len(anfang) /\ SubSeq(s, 1, Len(anfang)) = anfang

\* re.sub(r'(\w)- (?!und |oder |bzw )(\w)', r'\1\2', name): a text without
\* '-' stays as it is
RECURSIVE OhneTrennstrich(_)
OhneTrennstrich(s) ==
    IF Len(s) < 4 \/ \A i \in 1..Len(s) : s[i] # "-" THEN s
    ELSE IF /\ s[1] \in Wortzeichen /\ s[2] = "-" /\ s[3] = " " /\ s[4] \in Wortzeichen
            /\ \A w \in {<<"u", "n", "d", " ">>, <<"o", "d", "e", "r", " ">>,
                         <<"b", "z", "w", " ">>} : ~Beginnt(SubSeq(s, 4, Len(s)), w)
         THEN <<s[1], s[4]>> \o OhneTrennstrich(SubSeq(s, 5, Len(s)))
         ELSE <<Head(s)>> \o OhneTrennstrich(Tail(s))

\* _parse_stadtarchiv_text: a date line with an hour ('18 Uhr') or the first
\* day of a period (no time), and the title lines after it
RECURSIVE _parse_stadtarchiv_text(_, _, _, _, _)
_parse_stadtarchiv_text(eintraege, jahr, monat, pdf_url, gesehen) ==
    IF eintraege = <<>> THEN <<>>
    ELSE LET e == Head(eintraege)
             name == OhneTrennstrich(strip(e.name))
             datum == datetime(e.jahr, e.monat, e.tag, Stunde(e), 0)
             dedup_key == <<name, e.jahr, e.monat, e.tag>>
             nimmt == /\ GueltigesDatum(e.jahr, e.monat, e.tag)
                      /\ GueltigeZeit(Stunde(e), 0)
                      /\ _im_monat(datum, jahr, monat)
                      /\ name # <<>>
                      /\ dedup_key \notin gesehen
         IN (IF nimmt
             THEN << Termin(Gekuerzt(name, 150), datum,
                            IF e.zeit # <<>> THEN ZeitText(<<e.zeit[1], 0>>) \o UHR
                            ELSE SIEHE_WEBSITE,
                            "Institut für Stadtgeschichte", pdf_url, "", "stadtarchiv",
                            "Geschichte") >>
             ELSE <<>>)
            \o _parse_stadtarchiv_text(Tail(eintraege), jahr, monat, pdf_url,
                                       IF nimmt THEN gesehen \cup {dedup_key} ELSE gesehen)

\* hole_stadtarchiv: the text of one of the two programme files
hole_stadtarchiv(antwort, jahr, monat) ==
    IF antwort.fehler THEN Rueckgabe(<<>>)
    ELSE Rueckgabe(_parse_stadtarchiv_text(antwort.eintraege, jahr, monat,
                                           "Programm_1-Halbjahr_Stadtarchiv.pdf", {}))

\* _parse_vhs_seite: the label needs a start and an end time
RECURSIVE _parse_vhs_seite(_, _, _, _)
_parse_vhs_seite(eintraege, jahr, monat, gesehen) ==
    IF eintraege = <<>> THEN <<>>
    ELSE LET e == Head(eintraege)
             name == strip(e.name)
             tag == datetime(e.jahr, e.monat, e.tag, 0, 0)
             spanne == e.zeit # <<>> /\ e.ende # <<>>
             datum == IF spanne /\ GueltigeZeit(e.zeit[1], e.zeit[2])
                      THEN datetime(e.jahr, e.monat, e.tag, e.zeit[1], e.zeit[2])
                      ELSE tag
             dedup_key == <<name, e.jahr, e.monat, e.tag>>
             nimmt == /\ name # <<>>
                      /\ GueltigesDatum(e.jahr, e.monat, e.tag)
                      /\ _im_monat(tag, jahr, monat)
                      /\ dedup_key \notin gesehen
         IN (IF nimmt
             THEN << Termin(Gekuerzt(name, 150), datum,
                            IF spanne THEN Zeitspanne(e) ELSE SIEHE_WEBSITE,
                            IF Gekuerzt(e.ort, 150) # "" THEN Gekuerzt(e.ort, 150)
                            ELSE "VHS Recklinghausen",
                            e.link, "", "vhs", "Bildung") >>
             ELSE <<>>)
            \o _parse_vhs_seite(Tail(eintraege), jahr, monat,
                                IF nimmt THEN gesehen \cup {dedup_key} ELSE gesehen)

\* the keys _parse_vhs_seite adds to gesehen: those of the entries that get
\* as far as the check of gesehen
vhs_schluessel(eintraege, jahr, monat) ==
    { <<strip(eintraege[i].name), eintraege[i].jahr, eintraege[i].monat, eintraege[i].tag>> :
        i \in { j \in 1..Len(eintraege) :
                   /\ strip(eintraege[j].name) # <<>>
                   /\ GueltigesDatum(eintraege[j].jahr, eintraege[j].monat, eintraege[j].tag)
                   /\ _im_monat(datetime(eintraege[j].jahr, eintraege[j].monat,
                                         eintraege[j].tag, 0, 0), jahr, monat) } }

VHS_BASE_URL == "https://www.vhs-recklinghausen.de"

_VHS_KATEGORIEN ==
    <<"politik-und-gesellschaft", "kultur-gestalten", "gesundheit", "sprachen",
      "digitales-und-beruf", "grundbildung", "junge-vhs">>

\* f"{VHS_BASE_URL}/{kategorie}/" of the k-th category
vhs_url(k) == VHS_BASE_URL \o "/" \o _VHS_KATEGORIEN[k] \o "/"

\* what the site gives for one address: the request raises RequestException
\* (fehler), or the page has the entries and, as weiter, the href of its first
\* link with 'browse/forward' in it ("" if it has none)
Seite(fehler, eintraege, weiter) ==
    [fehler |-> fehler, eintraege |-> eintraege, weiter |-> weiter]

\* requests.get(url): an address the site does not serve (also an href that
\* is no absolute address) raises RequestException
Abruf(web, url) == IF url \in DOMAIN web THEN web[url] ELSE Seite(TRUE, <<>>, "")

\* the local variables of hole_vhs before the first category; k is the place
\* of the category in _VHS_KATEGORIEN, anfragen the requests made so far
\* (category and address), fertig says that hole_vhs has returned
vhs_anfang(jahr, monat) ==
    [jahr |-> jahr, monat |-> monat, termine |-> <<>>, gesehen |-> {}, k |-> 1,
     url |-> vhs_url(1), besuchte_urls |-> {}, anfragen |-> <<>>, fertig |-> FALSE]

\* variant: the pages of a category are not counted
vhs_weiter_ohne_grenze(z) == z.url # "" /\ z.url \notin z.besuchte_urls

\* while url and url not in besuchte_urls and len(besuchte_urls) < 5
vhs_weiter(z) ==
    z.url # "" /\ z.url \notin z.besuchte_urls /\ Cardinality(z.besuchte_urls) < 5

\* for kategorie in _VHS_KATEGORIEN: the next pass, or the end of the loop
vhs_naechste(z) ==
    [z EXCEPT !.k = @ + 1,
              !.url = IF z.k < Len(_VHS_KATEGORIEN) THEN vhs_url(z.k + 1) ELSE "",
              !.besuchte_urls = {}]

\* one step of hole_vhs: one pass of the while loop (a failed request leaves
\* the loop), the change to the next category, or the return
vhs_schritt(web, z) ==
    IF z.k > Len(_VHS_KATEGORIEN) THEN [z EXCEPT !.fertig = TRUE]
    ELSE IF ~vhs_weiter(z) THEN vhs_naechste(z)
    ELSE LET seite == Abruf(web, z.url)
             gebucht == [z EXCEPT !.besuchte_urls = @ \cup {z.url},
                                  !.anfragen = Append(@, <<z.k, z.url>>)]
         IN IF seite.fehler THEN vhs_naechste(gebucht)
            ELSE [gebucht EXCEPT
                    !.termine = @ \o _parse_vhs_seite(seite.eintraege, z.jahr, z.monat,
                                                      z.gesehen),
                    !.gesehen = @ \cup vhs_schluessel(seite.eintraege, z.jahr, z.monat),
                    !.url = seite.weiter]

\* hole_vhs from a state of its local variables to its return
RECURSIVE vhs_lauf(_, _)
vhs_lauf(web, z) == IF z.fertig THEN z ELSE vhs_lauf(web, vhs_schritt(web, z))

\* hole_vhs on the site web
hole_vhs(web, jahr, monat) == Rueckgabe(vhs_lauf(web, vhs_anfang(jahr, monat)).termine)

\* a site on which the page of every category is the one of the answer and
\* has no link to a further page
VhsEinseitig(antwort) ==
    [url \in {vhs_url(k) : k \in 1..Len(_VHS_KATEGORIEN)} |->
        Seite(antwort.fehler, antwort.eintraege, "")]

\* hole_geschichte_re: one div.ect-timeline-post; the hours 1 to 8 of the
\* source are taken as 13 to 20
geschichte_re_post(e, jahr, monat) ==
    LET name == strip(e.name)
        stunde == IF e.zeit[1] \in 1..8 THEN e.zeit[1] + 12 ELSE e.zeit[1]
        minute == e.zeit[2]
        datum == datetime(e.jahr, e.monat, e.tag, stunde, minute)
    IN IF e.zeit = <<>> THEN <<>>
       ELSE IF ~GueltigesDatum(e.jahr, e.monat, e.tag) THEN <<>>
       ELSE IF ~GueltigeZeit(stunde, minute) THEN <<>>
       ELSE IF ~_im_monat(datum, jahr, monat) THEN <<>>
       ELSE IF name = <<>> THEN <<>>
       ELSE << Termin(Gekuerzt(name, 150), datum,
                      IF stunde # 0 \/ minute # 0 THEN ZeitText(<<stunde, minute>>) \o UHR
                      ELSE SIEHE_WEBSITE,
                      IF Gekuerzt(e.ort, 150) # "" THEN Gekuerzt(e.ort, 150)
                      ELSE "Recklinghausen",
                      e.link, Gekuerzt(e.beschreibung, 200), "geschichte-re",
                      "Geschichte") >>

hole_geschichte_re(antwort, jahr, monat) ==
    IF antwort.fehler THEN Rueckgabe(<<>>)
    ELSE Rueckgabe(Ereignisse(LAMBDA e : geschichte_re_post(e, jahr, monat),
                              antwort.eintraege))

\* _parse_gastkirche_woche: one event of a day row; the year is the first one
\* in the header of the week (0: the header names none), the name is the
\* title attribute of the link as it stands
gastkirche_event(e, header_jahr, jahr, monat, kategorie_name) ==
    IF e.monat \notin 1..12 THEN <<>>
    ELSE IF e.monat # monat \/ header_jahr # jahr THEN <<>>
    ELSE IF e.name = <<>> THEN <<>>
    ELSE IF ~GueltigesDatum(header_jahr, e.monat, e.tag) THEN <<>>
    ELSE IF ~GueltigeZeit(Stunde(e), Minute(e)) THEN <<>>
    ELSE << Termin(Gekuerzt(e.name, 150),
                   datetime(header_jahr, e.monat, e.tag, Stunde(e), Minute(e)),
                   IF e.zeit # <<>> THEN ZeitText(e.zeit) \o UHR ELSE SIEHE_WEBSITE,
                   IF Gekuerzt(e.ort, 150) # "" THEN Gekuerzt(e.ort, 150)
                   ELSE "Gastkirche",
                   e.link, "", "gastkirche", kategorie_name) >>

_parse_gastkirche_woche(antwort, jahr, monat, kategorie_name) ==
    LET header_jahr == IF antwort.header_jahr # 0 THEN antwort.header_jahr ELSE jahr
    IN Ereignisse(LAMBDA e : gastkirche_event(e, header_jahr, jahr, monat, kategorie_name),
                  antwort.eintraege)

\* hole_gastkirche: one week page of one category
hole_gastkirche(antwort, jahr, monat) ==
    IF antwort.fehler THEN Rueckgabe(<<>>)
    ELSE Rueckgabe(_parse_gastkirche_woche(antwort, jahr, monat, "Veranstaltungen"))

\* hole_ruhrfestspiele: one schedule item of a production page; its id has
\* to start with the requested year and month
ruhrfestspiele_item(e, jahr, monat) ==
    LET name == strip(e.name)
        tag == datetime(e.jahr, e.monat, e.tag, 0, 0)
        datum == IF e.zeit # <<>> /\ GueltigeZeit(e.zeit[1], e.zeit[2])
                 THEN datetime(e.jahr, e.monat, e.tag, e.zeit[1], e.zeit[2])
                 ELSE tag
    IN IF name = <<>> THEN <<>>
       ELSE IF e.jahr # jahr \/ e.monat # monat THEN <<>>
       ELSE IF ~GueltigesDatum(e.jahr, e.monat, e.tag) THEN <<>>
       ELSE << Termin(Gekuerzt(name, 150), datum,
                      IF e.zeit # <<>> THEN ZeitText(e.zeit) \o UHR ELSE SIEHE_WEBSITE,
                      Gekuerzt(IF e.ort # "" THEN e.ort ELSE "Ruhrfestspielhaus", 150),
                      e.link, Gekuerzt(e.beschreibung, 200), "ruhrfestspiele",
                      "Theater/Festival") >>

hole_ruhrfestspiele(antwort, jahr, monat) ==
    IF antwort.fehler THEN Rueckgabe(<<>>)
    ELSE Rueckgabe(Ereignisse(LAMBDA e : ruhrfestspiele_item(e, jahr, monat),
                              antwort.eintraege))

\* the day after
Folgetag(d) ==
    IF d.tag < monthrange(d.jahr, d.monat) THEN [d EXCEPT !.tag = @ + 1]
    ELSE IF d.monat < 12 THEN [d EXCEPT !.tag = 1, !.monat = @ + 1]
    ELSE [d EXCEPT !.tag = 1, !.monat = 1, !.jahr = @ + 1]

\* dt_utc.astimezone(ZoneInfo('Europe/Berlin')): one hour ahead of UTC from
\* November to March, two hours from April to October (the two days of the
\* change are not modelled)
astimezone_berlin(d) ==
    LET stunde == d.stunde + (IF d.monat \in 4..10 THEN 2 ELSE 1)
    IN IF stunde < 24 THEN [d EXCEPT !.stunde = stunde]
       ELSE Folgetag([d EXCEPT !.stunde = stunde - 24])

\* hole_cineworld: one showing; a showing without a start is skipped
cineworld_vorstellung(e, jahr, monat) ==
    LET name == strip(e.name)
        dt == astimezone_berlin(datetime(e.jahr, e.monat, e.tag, e.zeit[1], e.zeit[2]))
    IN IF name = <<>> \/ e.zeit = <<>> THEN <<>>
       ELSE IF ~GueltigesDatum(e.jahr, e.monat, e.tag) THEN <<>>
       ELSE IF ~GueltigeZeit(e.zeit[1], e.zeit[2]) THEN <<>>
       ELSE IF ~_im_monat(dt, jahr, monat) THEN <<>>
       ELSE << [name |-> name, dt |-> dt, link |-> e.link,
                beschreibung |-> Gekuerzt(e.beschreibung, 200)] >>

\* sorted(...) of a set of texts
RECURSIVE SortierteTexte(_)
SortierteTexte(S) ==
    IF S = {} THEN <<>>
    ELSE LET k == CHOOSE x \in S : \A y \in S : ~TextKleiner(y, x)
         IN <<k>> \o SortierteTexte(S \ {k})

\* ' / '.join(zeiten)
RECURSIVE Verbunden(_)
Verbunden(zeiten) ==
    IF zeiten = <<>> THEN <<>>
    ELSE IF Len(zeiten) = 1 THEN zeiten[1]
    ELSE zeiten[1] \o <<" ", "/", " ">> \o Verbunden(Tail(zeiten))

\* what the API gives for one request: art is "fehler" (the request raises
\* RequestException), "status" (a status other than 200) or "ok"; wurzel is
\* "unlesbar" (response.json() raises ValueError), "objekt" or "liste";
\* showings is _embedded.showings and page_count is _page_count
CineAntwort(art, wurzel, showings, page_count) ==
    [art |-> art, wurzel |-> wurzel, showings |-> showings, page_count |-> page_count]

\* how many pages of a day the model tells apart: the page MaxSeite stands
\* for itself and every later one
MaxSeite == 3

\* a _page_count above the number of every page
MEHR == MaxSeite + 1

\* requests.get(CINEWORLD_API, params={..., 'date': datum_str, 'page': seite}):
\* the API answers the pages of the first day one by one and every other day
\* with the same answer
CineAbruf(api, tag, seite) == IF tag = 1 THEN api.erster[seite] ELSE api.sonst

\* the local variables of hole_cineworld before the first day; filme holds
\* the values of the dict in the order of their keys, zeiten as the set of
\* its members, data the answer the loop has in hand (<<>> if none), anfragen
\* the requests made so far (day and page; of the requests for the page
\* MaxSeite and the later ones of a day the first)
cine_anfang(jahr, monat) ==
    [jahr |-> jahr, monat |-> monat, tage_im_monat |-> monthrange(jahr, monat),
     filme |-> <<>>, tag |-> 1, seite |-> 1, data |-> <<>>, anfragen |-> <<>>,
     termine |-> <<>>, ausnahme |-> FALSE, fertig |-> FALSE]

\* for s in items: the showings are put into filme
RECURSIVE cine_filme(_, _)
cine_filme(filme, v) ==
    IF v = <<>> THEN filme
    ELSE LET x == Head(v)
             key(f) == <<f.name, f.dt.jahr, f.dt.monat, f.dt.tag>>
             zeit == ZeitText(<<x.dt.stunde, x.dt.minute>>)
             neu == [name |-> x.name, dt |-> x.dt, link |-> x.link,
                     beschreibung |-> x.beschreibung, zeiten |-> {}]
             mit == IF \E n \in 1..Len(filme) : key(filme[n]) = key(x) THEN filme
                    ELSE Append(filme, neu)
         IN cine_filme([n \in 1..Len(mit) |->
                           IF key(mit[n]) = key(x)
                           THEN [mit[n] EXCEPT !.zeiten = @ \cup {zeit}] ELSE mit[n]],
                       Tail(v))

\* for info in filme.values(): one event for each film and day, with all its
\* times
cine_termine(filme) ==
    [i \in 1..Len(filme) |->
        Termin(Gekuerzt(filme[i].name, 150),
               [filme[i].dt EXCEPT !.stunde = 0, !.minute = 0],
               Verbunden(SortierteTexte(filme[i].zeiten)) \o UHR,
               "Cineworld, Kemnastr. 3",
               IF filme[i].link # "" THEN filme[i].link
               ELSE "https://www.cineworld-recklinghausen.de/de/programm",
               filme[i].beschreibung, "cineworld", "Kino")]

\* break: the loop of the day is left, the next day begins with page 1
cine_naechster_tag(z) == [z EXCEPT !.tag = @ + 1, !.seite = 1, !.data = <<>>]

\* if seite < data.get('_page_count', 1): seite += 1, else: break; seite
\* stays at MaxSeite for the later pages
cine_blaettern(z) ==
    IF z.seite < z.data[1].page_count
    THEN [z EXCEPT !.seite = IF @ < MaxSeite THEN @ + 1 ELSE @, !.data = <<>>]
    ELSE cine_naechster_tag(z)

\* one step of hole_cineworld: the request of a page and the reading of its
\* showings, the step to the next page or day, or the return
cine_schritt(api, z) ==
    IF z.tag > z.tage_im_monat
    THEN [z EXCEPT !.termine = cine_termine(z.filme), !.fertig = TRUE]
    ELSE IF z.data # <<>> THEN cine_blaettern(z)
    ELSE LET data == CineAbruf(api, z.tag, z.seite)
             gebucht == IF z.seite < MaxSeite \/ z.anfragen = <<>>
                           \/ z.anfragen[Len(z.anfragen)] # <<z.tag, z.seite>>
                        THEN [z EXCEPT !.anfragen = Append(@, <<z.tag, z.seite>>)]
                        ELSE z
         IN IF data.art # "ok" \/ data.wurzel = "unlesbar" THEN cine_naechster_tag(gebucht)
            ELSE IF data.wurzel = "liste"
            THEN [gebucht EXCEPT !.ausnahme = TRUE, !.fertig = TRUE]
            ELSE IF data.showings = <<>> THEN cine_naechster_tag(gebucht)
            ELSE [gebucht EXCEPT
                    !.filme = cine_filme(@, Ereignisse(
                                  LAMBDA e : cineworld_vorstellung(e, z.jahr, z.monat),
                                  data.showings)),
                    !.data = <<data>>]

\* hole_cineworld from a state of its local variables to its return
RECURSIVE cine_lauf(_, _)
cine_lauf(api, z) == IF z.fertig THEN z ELSE cine_lauf(api, cine_schritt(api, z))

\* hole_cineworld on the API api
hole_cineworld(api, jahr, monat) ==
    LET z == cine_lauf(api, cine_anfang(jahr, monat))
    IN IF z.ausnahme THEN AUSNAHME ELSE Rueckgabe(z.termine)

\* an API that gives the answer for the first page of the first day and has
\* no showings for any other request
CineEinmal(antwort) ==
    LET leer == CineAntwort("ok", "objekt", <<>>, 1)
    IN [erster |-> [seite \in 1..MaxSeite |->
                       IF seite = 1
                       THEN CineAntwort(IF antwort.fehler THEN "fehler" ELSE "ok",
                                        antwort.wurzel, antwort.eintraege, 1)
                       ELSE leer],
        sonst |-> leer]

\* the adapters of scraper.py
ADAPTER ==
    {"hole_regioactive", "hole_stadt_re", "hole_altstadtschmiede", "hole_vesterleben",
     "hole_sternwarte", "hole_kunsthalle", "hole_stadtbibliothek", "hole_nlgr",
     "hole_literaturtage", "hole_akademie", "hole_stadtarchiv", "hole_vhs",
     "hole_geschichte_re", "hole_gastkirche", "hole_ruhrfestspiele", "hole_backyard",
     "hole_cineworld"}

\* the call of the adapter of that name
hole(adapter, antwort, jahr, monat) ==
    CASE adapter = "hole_regioactive" -> hole_regioactive(antwort, jahr, monat)
      [] adapter = "hole_stadt_re" -> hole_stadt_re(antwort, jahr, monat)
      [] adapter = "hole_altstadtschmiede" -> hole_altstadtschmiede(antwort, jahr, monat)
      [] adapter = "hole_vesterleben" -> hole_vesterleben(antwort, jahr, monat)
      [] adapter = "hole_sternwarte" -> hole_sternwarte(antwort, jahr, monat)
      [] adapter = "hole_kunsthalle" -> hole_kunsthalle(antwort, jahr, monat)
      [] adapter = "hole_stadtbibliothek" -> hole_stadtbibliothek(antwort, jahr, monat)
      [] adapter = "hole_nlgr" -> hole_nlgr(antwort, jahr, monat)
      [] adapter = "hole_literaturtage" -> hole_literaturtage(antwort, jahr, monat)
      [] adapter = "hole_akademie" -> hole_akademie(antwort, jahr, monat)
      [] adapter = "hole_stadtarchiv" -> hole_stadtarchiv(antwort, jahr, monat)
      [] adapter = "hole_vhs" -> hole_vhs(VhsEinseitig(antwort), jahr, monat)
      [] adapter = "hole_geschichte_re" -> hole_geschichte_re(antwort, jahr, monat)
      [] adapter = "hole_gastkirche" -> hole_gastkirche(antwort, jahr, monat)
      [] adapter = "hole_ruhrfestspiele" -> hole_ruhrfestspiele(antwort, jahr, monat)
      [] adapter = "hole_backyard" -> hole_backyard(antwort, jahr, monat)
      [] adapter = "hole_cineworld" -> hole_cineworld(CineEinmal(antwort), jahr, monat)

\* what a source can hold: up to MaxEintraege entries
MaxEintraege == 2

\* the months main() asks for: December 2025 and January 2026
Anfragen == {Ziel, NEUJAHR}

\* entries that differ in the date as written (the 32nd is no day) and in the
\* time: none, or half an hour before midnight
Jahre == {Ziel.jahr, NEUJAHR.jahr}

EintraegeMonat ==
    {Eintrag(<<"a">>, j, m.monat, t, z, <<>>, "", "", "") :
        j \in Jahre, m \in Anfragen, t \in {31, 32}, z \in {<<>>, <<23, 30>>}}

\* the years a week header can name (0: none)
HeaderJahre(adapter) == IF adapter = "hole_gastkirche" THEN {0} \cup Jahre ELSE {0}

\* texts of a source: a name with blanks around it, a name of blanks, no
\* name, a name of 151 characters whose 150th is a blank, a name of 151
\* letters; no venue, a short one, one of 171 characters; no description, one
\* of 311 characters
NamenTexte ==
    { <<"a">>, <<" ", "a", " ">>, <<" ">>, <<>>,
      [i \in 1..149 |-> "a"] \o <<" ", "b">>, [i \in 1..151 |-> "a"] }

ORT_LANG ==
    "Recklinghausen, Ruhrfestspielhaus, Otto-Burrmeister-Allee 1, Eingang am Stadtgarten, Kleines Haus im Untergeschoss, Abendkasse im Foyer ab eine Stunde vor Beginn geoeffnet"

BESCHREIBUNG_LANG ==
    "Ein Abend mit Musik, Lesung und Gespraech im Foyer. Ein Abend mit Musik, Lesung und Gespraech im Foyer. Ein Abend mit Musik, Lesung und Gespraech im Foyer. Ein Abend mit Musik, Lesung und Gespraech im Foyer. Ein Abend mit Musik, Lesung und Gespraech im Foyer. Ein Abend mit Musik, Lesung und Gespraech im Foyer."

OrteTexte == {"", "Recklinghausen", ORT_LANG}

EintraegeTexte ==
    {Eintrag(n, Ziel.jahr, Ziel.monat, 6, <<19, 0>>, <<>>, o, "", b) :
        n \in NamenTexte, o \in OrteTexte, b \in {"", BESCHREIBUNG_LANG}}

\* the calls of main() for one month, in their order
REIHENFOLGE ==
    <<"hole_regioactive", "hole_stadt_re", "hole_altstadtschmiede", "hole_vesterleben",
      "hole_sternwarte", "hole_kunsthalle">>

\* what a source can answer: no connection; a payload that cannot be read; a
\* JSON array, or a document, with one entry at 19:00; a document with one
\* entry at 25:00
EintragUm(stunde) ==
    Eintrag(<<"a">>, Ziel.jahr, Ziel.monat, 6, <<stunde, 0>>, <<>>, "", "", "")

Antworten ==
    { Antwort(TRUE, "objekt", 0, <<>>), Antwort(FALSE, "unlesbar", 0, <<>>),
      Antwort(FALSE, "liste", 0, <<EintragUm(19)>>),
      Antwort(FALSE, "objekt", 0, <<EintragUm(19)>>),
      Antwort(FALSE, "objekt", 0, <<EintragUm(25)>>) }

-----------------------------------------------------------------------------
(* main(): the part after the adapters have returned                       *)

\* a call main() makes for the month (j, m)
Aufruf(name, monat) == [name |-> name, jahr |-> monat.jahr, monat |-> monat.monat]

\* main() is run for one month, has called nothing yet, and no adapter is at
\* work
Einzeln ==
    /\ monate_liste = <<anfrage>>
    /\ idx = 1
    /\ ablauf = <<>>
    /\ lokal = <<>>

Init ==
    /\ termine \in Folgen(Universum, MaxTermine)
    /\ ergebnis = [i \in 1..Len(termine) |-> i]
    /\ pc = "gesammelt"
    /\ anfrage = Ziel
    /\ netz = <<>>
    /\ Einzeln

\* alle_termine = entferne_duplikate(alle_termine)
EntferneDuplikate ==
    /\ pc = "gesammelt"
    /\ ergebnis' = entferne_duplikate(termine)
    /\ pc' = "dedupliziert"
    /\ ablauf' = Append(ablauf, Aufruf("entferne_duplikate", anfrage))
    /\ UNCHANGED <<termine, anfrage, netz, monate_liste, idx, lokal>>

\* alle_termine.sort()
Sortiere ==
    /\ pc = "dedupliziert"
    /\ ergebnis' = sort(termine, ergebnis)
    /\ pc' = "sortiert"
    /\ ablauf' = Append(ablauf, Aufruf("sort", anfrage))
    /\ UNCHANGED <<termine, anfrage, netz, monate_liste, idx, lokal>>

Next == EntferneDuplikate \/ Sortiere

Spec == Init /\ [][Next]_vars

InitQuellen ==
    /\ termine \in Folgen(UniversumQuellen, MaxTermine)
    /\ ergebnis = [i \in 1..Len(termine) |-> i]
    /\ pc = "gesammelt"
    /\ anfrage = Ziel
    /\ netz = <<>>
    /\ Einzeln

SpecQuellen == InitQuellen /\ [][Next]_vars

InitSortierung ==
    /\ termine \in Folgen(UniversumSortierung, MaxTermine)
    /\ ergebnis = [i \in 1..Len(termine) |-> i]
    /\ pc = "gesammelt"
    /\ anfrage = Ziel
    /\ netz = <<>>
    /\ Einzeln

SpecSortierung == InitSortierung /\ [][Next]_vars

InitSchreibweisen ==
    /\ termine \in [1..2 -> UniversumSchreibweisen]
    /\ ergebnis = [i \in 1..Len(termine) |-> i]
    /\ pc = "gesammelt"
    /\ anfrage = Ziel
    /\ netz = <<>>
    /\ Einzeln

SpecSchreibweisen == InitSchreibweisen /\ [][Next]_vars

InitAusserhalb ==
    /\ termine \in Folgen(UniversumAusserhalb, MaxTermine)
    /\ ergebnis = [i \in 1..Len(termine) |-> i]
    /\ pc = "gesammelt"
    /\ anfrage = Ziel
    /\ netz = <<>>
    /\ Einzeln

SpecAusserhalb == InitAusserhalb /\ [][Next]_vars

InitPunkte ==
    /\ termine \in [1..2 -> UniversumPunkte]
    /\ ergebnis = [i \in 1..Len(termine) |-> i]
    /\ pc = "gesammelt"
    /\ anfrage = Ziel
    /\ netz = <<>>
    /\ Einzeln

SpecPunkte == InitPunkte /\ [][Next]_vars

InitKategorien ==
    /\ termine \in Folgen(UniversumKategorien, MaxTermine)
    /\ ergebnis = [i \in 1..Len(termine) |-> i]
    /\ pc = "gesammelt"
    /\ anfrage = Ziel
    /\ netz = <<>>
    /\ Einzeln

SpecKategorien == InitKategorien /\ [][Next]_vars

\* one call of one adapter, as main() makes it: events = hole_x(j, m)
Rufe ==
    /\ pc = "aufruf"
    /\ \E adapter \in DOMAIN netz :
          LET r == hole(adapter, netz[adapter], anfrage.jahr, anfrage.monat)
          IN /\ termine' = r.liste
             /\ ergebnis' = [i \in 1..Len(r.liste) |-> i]
             /\ pc' = IF r.ausnahme THEN "ausnahme" ELSE "zurueck"
             /\ ablauf' = Append(ablauf, Aufruf(adapter, anfrage))
    /\ UNCHANGED <<anfrage, netz, monate_liste, idx, lokal>>

NextAdapter == Rufe

InitMonat ==
    /\ termine = <<>>
    /\ ergebnis = <<>>
    /\ pc = "aufruf"
    /\ anfrage \in Anfragen
    /\ \E adapter \in ADAPTER, h \in Jahre \cup {0} :
          /\ h \in HeaderJahre(adapter)
          /\ \E eintraege \in Folgen(EintraegeMonat, MaxEintraege) :
                netz = (adapter :> Antwort(FALSE, "objekt", h, eintraege))
    /\ Einzeln

SpecMonat == InitMonat /\ [][NextAdapter]_vars

\* one call of one adapter on a source with one entry of the texts
InitTexte ==
    /\ termine = <<>>
    /\ ergebnis = <<>>
    /\ pc = "aufruf"
    /\ anfrage = Ziel
    /\ \E adapter \in ADAPTER, e \in EintraegeTexte :
          netz = (adapter :> Antwort(FALSE, "objekt", 0, <<e>>))
    /\ Einzeln

SpecTexte == InitTexte /\ [][NextAdapter]_vars

-----------------------------------------------------------------------------
(* main(): the calls of the adapters for one month                         *)

\* events = hole_x(j, m); alle_termine.extend(events): an exception of the
\* call is not caught and ends main()
Hole ==
    /\ \E k \in 1..Len(REIHENFOLGE) :
          /\ pc = REIHENFOLGE[k]
          /\ LET r == hole(pc, netz[pc], anfrage.jahr, anfrage.monat)
             IN IF r.ausnahme
                THEN /\ termine' = termine
                     /\ pc' = "abgebrochen"
                ELSE /\ termine' = termine \o r.liste
                     /\ pc' = IF k < Len(REIHENFOLGE) THEN REIHENFOLGE[k + 1]
                              ELSE "gesammelt"
    /\ ergebnis' = [i \in 1..Len(termine') |-> i]
    /\ ablauf' = Append(ablauf, Aufruf(pc, anfrage))
    /\ UNCHANGED <<anfrage, netz, monate_liste, idx, lokal>>

NextMain == Hole \/ EntferneDuplikate \/ Sortiere

InitMain ==
    /\ termine = <<>>
    /\ ergebnis = <<>>
    /\ pc = REIHENFOLGE[1]
    /\ anfrage = Ziel
    /\ netz \in [{REIHENFOLGE[k] : k \in 1..Len(REIHENFOLGE)} -> Antworten]
    /\ Einzeln

SpecMain == InitMain /\ [][NextMain]_vars

-----------------------------------------------------------------------------
(* main(): the list of the months                                          *)

\* variant: `if monat >= 12`
RECURSIVE berechne_monate_bis_elf(_, _, _)
berechne_monate_bis_elf(start_jahr, start_monat, anzahl) ==
    IF anzahl <= 0 THEN <<>>
    ELSE <<[jahr |-> start_jahr, monat |-> start_monat]>>
         \o (IF start_monat + 1 >= 12
             THEN berechne_monate_bis_elf(start_jahr + 1, 1, anzahl - 1)
             ELSE berechne_monate_bis_elf(start_jahr, start_monat + 1, anzahl - 1))

\* berechne_monate: one pass of the loop appends (jahr, monat) and steps to
\* the next month; range(anzahl) is empty for anzahl <= 0
RECURSIVE berechne_monate(_, _, _)
berechne_monate(start_jahr, start_monat, anzahl) ==
    IF anzahl <= 0 THEN <<>>
    ELSE <<[jahr |-> start_jahr, monat |-> start_monat]>>
         \o (IF start_monat + 1 > 12
             THEN berechne_monate(start_jahr + 1, 1, anzahl - 1)
             ELSE berechne_monate(start_jahr, start_monat + 1, anzahl - 1))

\* the arguments of the command line: up to MaxMonate months from any month
\* of 2025
MaxMonate == 14

Argumente ==
    [jahr : {Ziel.jahr}, monat : 1..12, anzahl_monate : 0..MaxMonate]

\* main() up to the first pass of its loop over monate_liste; with no month
\* the loop is skipped and monate_liste[0] raises IndexError
BerechneMonate ==
    /\ pc = "start"
    /\ monate_liste' = berechne_monate(lokal.jahr, lokal.monat, lokal.anzahl_monate)
    /\ ablauf' = Append(ablauf, Aufruf("berechne_monate", lokal))
    /\ IF monate_liste' = <<>>
       THEN /\ pc' = "abgebrochen"
            /\ UNCHANGED <<anfrage, idx>>
       ELSE /\ pc' = REIHENFOLGE[1]
            /\ idx' = 1
            /\ anfrage' = monate_liste'[1]
    /\ termine' = <<>>
    /\ ergebnis' = <<>>
    /\ UNCHANGED <<netz, lokal>>

NextMonate == BerechneMonate

InitMonate ==
    /\ termine = <<>>
    /\ ergebnis = <<>>
    /\ pc = "start"
    /\ lokal \in Argumente
    /\ anfrage = [jahr |-> lokal.jahr, monat |-> lokal.monat]
    /\ netz = <<>>
    /\ monate_liste = <<>>
    /\ idx = 1
    /\ ablauf = <<>>

SpecMonate == InitMonate /\ [][NextMonate]_vars

-----------------------------------------------------------------------------
(* main(): the whole run over monate_liste                                 *)

\* html = generiere_html(alle_termine, j, m, monate_liste) and the writing of
\* the file; then the next pass of the loop begins with alle_termine = [],
\* or, after the last month, index.html is written and main() ends
Schreibe ==
    /\ pc = "sortiert"
    /\ ablauf' = Append(ablauf, [name |-> "generiere_html", jahr |-> anfrage.jahr,
                                 monat |-> anfrage.monat,
                                 termine |-> Liste(termine, ergebnis)])
    /\ IF idx < Len(monate_liste)
       THEN /\ idx' = idx + 1
            /\ anfrage' = monate_liste[idx + 1]
            /\ termine' = <<>>
            /\ ergebnis' = <<>>
            /\ pc' = REIHENFOLGE[1]
       ELSE /\ pc' = "fertig"
            /\ UNCHANGED <<idx, anfrage, termine, ergebnis>>
    /\ UNCHANGED <<netz, monate_liste, lokal>>

NextLauf == BerechneMonate \/ Hole \/ EntferneDuplikate \/ Sortiere \/ Schreibe

\* a run over up to MaxLauf months from December 2025 on; a source holds an
\* entry of December, or one of December and one of January, or answers with
\* a JSON array, or not at all
MaxLauf == 2

EintragIm(monat) ==
    Eintrag(<<"a">>, monat.jahr, monat.monat, 6, <<19, 0>>, <<>>, "", "", "")

AntwortenLauf ==
    { Antwort(TRUE, "objekt", 0, <<>>),
      Antwort(FALSE, "liste", 0, <<EintragIm(Ziel)>>),
      Antwort(FALSE, "objekt", 0, <<EintragIm(Ziel)>>),
      Antwort(FALSE, "objekt", 0, <<EintragIm(Ziel), EintragIm(NEUJAHR)>>) }

InitLauf ==
    /\ termine = <<>>
    /\ ergebnis = <<>>
    /\ pc = "start"
    /\ lokal \in [jahr : {Ziel.jahr}, monat : {Ziel.monat}, anzahl_monate : 0..MaxLauf]
    /\ anfrage = Ziel
    /\ netz \in [{REIHENFOLGE[k] : k \in 1..Len(REIHENFOLGE)} -> AntwortenLauf]
    /\ monate_liste = <<>>
    /\ idx = 1
    /\ ablauf = <<>>

SpecLauf == InitLauf /\ [][NextLauf]_vars

-----------------------------------------------------------------------------
(* hole_vhs step by step: the categories and their pages                   *)

\* an invocation that has begun: the adapter and the state of its local
\* variables
Rahmen(adapter, z) == [adapter |-> adapter, z |-> z]

\* variant: gesehen is one set of the process, every invocation of hole_vhs
\* works on the keys of all of them
Eigene_gesehen_gemeinsam(rahmen, i) ==
    IF rahmen[i].adapter # "hole_vhs" THEN rahmen[i].z
    ELSE [rahmen[i].z EXCEPT !.gesehen =
            UNION {rahmen[j].z.gesehen :
                      j \in {n \in 1..Len(rahmen) : rahmen[n].adapter = "hole_vhs"}}]

\* the local variables the i-th invocation works on are its own: termine,
\* gesehen and besuchte_urls are made in the call
Eigene(rahmen, i) == rahmen[i].z

\* a call without paging: the request, the parsing and the return
einfach_anfang(jahr, monat) ==
    [jahr |-> jahr, monat |-> monat, termine |-> <<>>, ausnahme |-> FALSE,
     fertig |-> FALSE]

\* the local variables of an invocation at its beginning
anfang(adapter, jahr, monat) ==
    IF adapter = "hole_vhs" THEN vhs_anfang(jahr, monat)
    ELSE IF adapter = "hole_cineworld" THEN cine_anfang(jahr, monat)
    ELSE einfach_anfang(jahr, monat)

\* one step of an invocation
schritt(adapter, quelle, z) ==
    IF adapter = "hole_vhs" THEN vhs_schritt(quelle, z)
    ELSE IF adapter = "hole_cineworld" THEN cine_schritt(quelle, z)
    ELSE LET r == hole(adapter, quelle, z.jahr, z.monat)
         IN [z EXCEPT !.termine = r.liste, !.ausnahme = r.ausnahme, !.fertig = TRUE]

\* the invocations that have not returned
Laufende == {i \in 1..Len(lokal) : ~lokal[i].z.fertig}

\* how many invocations a run of the model makes
MaxAufrufe == 2

\* an adapter is called for the month, one call after the other
Beginne ==
    /\ pc = "aufruf"
    /\ Laufende = {}
    /\ Len(lokal) < MaxAufrufe
    /\ \E adapter \in DOMAIN netz :
          lokal' = Append(lokal, Rahmen(adapter, anfang(adapter, anfrage.jahr, anfrage.monat)))
    /\ UNCHANGED <<termine, ergebnis, pc, anfrage, netz, monate_liste, idx, ablauf>>

\* an invocation takes its next step
Schritt ==
    /\ \E i \in Laufende :
          lokal' = [lokal EXCEPT ![i].z = schritt(lokal[i].adapter, netz[lokal[i].adapter],
                                                  Eigene(lokal, i))]
    /\ UNCHANGED <<termine, ergebnis, pc, anfrage, netz, monate_liste, idx, ablauf>>

NextAufrufe == Beginne \/ Schritt

\* the pages after the first one of a category
vhs_folgeseite(n) == VHS_BASE_URL \o "/browse/forward/" \o Ziffer(n)

\* how many pages can follow the first one of a category
MaxKette == 6

\* courses on the 6th: "a" with two different links, and two names of 151
\* characters that differ in the last one
Kurs(name, link) ==
    Eintrag(name, Ziel.jahr, Ziel.monat, 6, <<19, 0>>, <<20, 30>>, "", link, "")

KURSE_ERSTE == { <<Kurs(<<"a">>, "1")>>, <<Kurs([i \in 1..150 |-> "a"] \o <<"b">>, "1")>> }

KURSE_WEITERE ==
    { <<>>, <<Kurs(<<"a">>, "2")>>, <<Kurs([i \in 1..150 |-> "a"] \o <<"c">>, "2")>> }

\* where the link of the last page of the first category goes: there is
\* none, to the first following page, to the page itself, to an address that
\* is not served
ENDEN == {"keiner", "zurueck", "selbst", "fremd"}

\* a site whose first category has laenge following pages, the ausfall-th
\* page of which times out (0: none does); c1 is on the first page, c2 on the
\* one after it, c3 on the page of the second category
VhsWeb(laenge, ende, ausfall, c1, c2, c3) ==
    LET schluss == CASE ende = "keiner" -> ""
                     [] ende = "zurueck" -> vhs_folgeseite(1)
                     [] ende = "selbst" -> vhs_folgeseite(laenge)
                     [] ende = "fremd" -> "browse/forward/2"
        nach(n) == IF n < laenge THEN vhs_folgeseite(n + 1) ELSE schluss
    IN [url \in {vhs_url(k) : k \in 1..Len(_VHS_KATEGORIEN)}
                \cup {vhs_folgeseite(n) : n \in 1..laenge} |->
          IF url = vhs_url(1) THEN Seite(ausfall = 1, c1, nach(0))
          ELSE IF url = vhs_url(2) THEN Seite(FALSE, c3, "")
          ELSE IF \E n \in 1..laenge : url = vhs_folgeseite(n)
          THEN LET n == CHOOSE n \in 1..laenge : url = vhs_folgeseite(n)
               IN Seite(ausfall = n + 1, IF n = 1 THEN c2 ELSE <<>>, nach(n))
          ELSE Seite(FALSE, <<>>, "")]

VhsWebs ==
    { VhsWeb(laenge, ende, ausfall, c1, c2, c3) :
        laenge \in 0..MaxKette, ende \in ENDEN, ausfall \in 0..3,
        c1 \in KURSE_ERSTE, c2 \in KURSE_WEITERE, c3 \in KURSE_WEITERE }

InitVhs ==
    /\ termine = <<>>
    /\ ergebnis = <<>>
    /\ pc = "aufruf"
    /\ anfrage = Ziel
    /\ \E web \in VhsWebs : netz = ("hole_vhs" :> web)
    /\ Einzeln

SpecVhs == InitVhs /\ [][NextAufrufe]_vars

\* a function that is at work takes its next step
SpecVhsFair == InitVhs /\ [][NextAufrufe]_vars /\ WF_vars(Schritt)

-----------------------------------------------------------------------------
(* hole_cineworld step by step: the days and their pages                   *)

\* a showing of the film "a" on the 6th, at 19:00 or 21:00 UTC
Vorstellung(stunde) ==
    Eintrag(<<"a">>, Ziel.jahr, Ziel.monat, 6, <<stunde, 0>>, <<>>, "", "", "")

\* what a page of the first day can be: the request fails, the status is not
\* 200, a page without showings that reports more pages, one showing on the
\* only page, one showing and more pages
CineSeiten ==
    { CineAntwort("fehler", "objekt", <<>>, 1), CineAntwort("status", "objekt", <<>>, 1),
      CineAntwort("ok", "objekt", <<>>, MEHR),
      CineAntwort("ok", "objekt", <<Vorstellung(21)>>, 1),
      CineAntwort("ok", "objekt", <<Vorstellung(19)>>, MEHR) }

\* what the other days can be: no showings, the request fails, no JSON, a
\* JSON array, one showing
CineSonst ==
    { CineAntwort("ok", "objekt", <<>>, 1), CineAntwort("fehler", "objekt", <<>>, 1),
      CineAntwort("ok", "unlesbar", <<>>, 1), CineAntwort("ok", "liste", <<>>, 1),
      CineAntwort("ok", "objekt", <<Vorstellung(21)>>, 1) }

InitCine ==
    /\ termine = <<>>
    /\ ergebnis = <<>>
    /\ pc = "aufruf"
    /\ anfrage = Ziel
    /\ \E erster \in [1..MaxSeite -> CineSeiten], sonst \in CineSonst :
          netz = ("hole_cineworld" :> [erster |-> erster, sonst |-> sonst])
    /\ Einzeln

SpecCine == InitCine /\ [][NextAufrufe]_vars

\* a function that is at work takes its next step
SpecCineFair == InitCine /\ [][NextAufrufe]_vars /\ WF_vars(Schritt)

-----------------------------------------------------------------------------
(* Invocations of adapters side by side                                    *)

\* how many invocations are at work side by side
MaxNebenher == 2

\* an adapter is called for a month while others are at work
BeginneNebenher ==
    /\ pc = "aufruf"
    /\ Len(lokal) < MaxNebenher
    /\ \E adapter \in DOMAIN netz, monat \in Anfragen :
          lokal' = Append(lokal, Rahmen(adapter, anfang(adapter, monat.jahr, monat.monat)))
    /\ UNCHANGED <<termine, ergebnis, pc, anfrage, netz, monate_liste, idx, ablauf>>

NextNebenher == BeginneNebenher \/ Schritt

\* the site of the VHS lists the course "a" in its first category, on the
\* following page or in the second category again; the Backyard has one event
InitNebenher ==
    /\ termine = <<>>
    /\ ergebnis = <<>>
    /\ pc = "aufruf"
    /\ anfrage = Ziel
    /\ \E laenge \in 0..1, c3 \in {<<>>, <<Kurs(<<"a">>, "2")>>} :
          netz = ("hole_vhs" :> VhsWeb(laenge, "keiner", 0, <<Kurs(<<"a">>, "1")>>,
                                       <<Kurs(<<"a">>, "2")>>, c3))
                 @@ ("hole_backyard" :> Antwort(FALSE, "objekt", 0, <<EintragUm(19)>>))
    /\ Einzeln

SpecNebenher == InitNebenher /\ [][NextNebenher]_vars

TypeOK ==
    /\ pc \in {"gesammelt", "dedupliziert", "sortiert", "aufruf", "zurueck", "ausnahme",
               "abgebrochen", "start", "fertig"} \cup {REIHENFOLGE[k] : k \in 1..Len(REIHENFOLGE)}
    /\ \A i \in 1..Len(ergebnis) : ergebnis[i] \in 1..Len(termine)

-----------------------------------------------------------------------------
(* Notions the properties are stated in                                    *)

Positionen == 1..Len(termine)

\* the calendar day of an event, without the time of day
Kalendertag(t) == <<t.datum.jahr, t.datum.monat, t.datum.tag>>

\* the name rule: equal, contained or containing comparison keys
Namenskollision(a, b) ==
    LET na == _normalisiere(a.name)
        nb == _normalisiere(b.name)
    IN na = nb
       \/ (\E i \in 0..(Len(nb) - Len(na)) : SubSeq(nb, i + 1, i + Len(na)) = na)
       \/ (\E i \in 0..(Len(na) - Len(nb)) : SubSeq(na, i + 1, i + Len(nb)) = nb)

\* two input events that are duplicates of each other by date and name
Kollidieren(ts, i, j) ==
    i # j /\ Kalendertag(ts[i]) = Kalendertag(ts[j]) /\ Namenskollision(ts[i], ts[j])

\* the calendar days of the input
Kalendertage == {Kalendertag(termine[i]) : i \in Positionen}

Punkte(t) ==
    LET b(x) == IF x THEN 1 ELSE 0
    IN 2 * b(t.link # "") + 2 * b(t.uhrzeit \notin {<<>>, GANZTAEGIG, SIEHE_WEBSITE})
       + b(t.beschreibung # "") + b(t.ort # "")

ImErgebnis(i) == \E k \in 1..Len(ergebnis) : ergebnis[k] = i

Dedupliziert == pc \in {"dedupliziert", "sortiert"}

\* the reconciler on a list: the list of events it returns
Rekonziliert(ts) == Liste(ts, sort(ts, entferne_duplikate(ts)))

Permutationen ==
    [n \in 0..(MaxTermine + 1) |->
        {p \in [1..n -> 1..n] : \A i, j \in 1..n : p[i] = p[j] => i = j}]

\* no two colliding events of the input have the same score
KollisionenEntschieden ==
    \A i, j \in Positionen :
        Kollidieren(termine, i, j) => Punkte(termine[i]) # Punkte(termine[j])

-----------------------------------------------------------------------------
\* every event of the input has a name with a non-empty comparison key
NamenNichtLeer == \A i \in Positionen : _normalisiere(termine[i].name) # <<>>

\* C1 (as claimed): for every permutation of the input list, dedup followed by
\* the final sort yields the same output list as on the original list (stated
\* for inputs whose names have non-empty keys, where it already fails).
C1_OrderInvariance ==
    (pc = "sortiert" /\ NamenNichtLeer) =>
        \A p \in Permutationen[Len(termine)] :
            Rekonziliert([i \in Positionen |-> termine[p[i]]]) = Liste(termine, ergebnis)

\* C1 (amended): when no two colliding events (same day, equal or contained
\* names) have the same score, every permutation of the input list yields the
\* same final output list.
C1_OrderInvarianceWithoutTies ==
    (pc = "sortiert" /\ KollisionenEntschieden) =>
        \A p \in Permutationen[Len(termine)] :
            Rekonziliert([i \in Positionen |-> termine[p[i]]]) = Liste(termine, ergebnis)

\* C1 witness: three events without tied collisions, one of them removed, and
\* the two remaining ones leave in the opposite of their input order.
C1_Witness ==
    /\ pc = "sortiert"
    /\ KollisionenEntschieden
    /\ Len(termine) = 3
    /\ \E i, j \in Positionen : Kollidieren(termine, i, j)
    /\ Len(ergebnis) = 2
    /\ ergebnis[1] > ergebnis[2]

\* C2: the reconciler applied to its own output removes nothing and moves
\* nothing.
C2_Idempotent ==
    pc = "sortiert" =>
        LET aus == Liste(termine, ergebnis)
        IN sort(aus, entferne_duplikate(aus)) = [i \in 1..Len(aus) |-> i]

\* C2 witness: a first run that removed an event and kept at least two.
C2_Witness ==
    /\ pc = "sortiert"
    /\ Len(ergebnis) >= 2
    /\ Len(ergebnis) < Len(termine)

\* C3 (as claimed): of two colliding input events of which one is retained and
\* the other removed, the retained one has the equal or higher score (stated
\* for inputs whose names have non-empty keys, where it already fails).
C3_ScoreMonotone ==
    (Dedupliziert /\ NamenNichtLeer) =>
        \A i, j \in Positionen :
            (Kollidieren(termine, i, j) /\ ImErgebnis(i) /\ ~ImErgebnis(j))
                => Punkte(termine[i]) >= Punkte(termine[j])

\* C3 (amended): two colliding input events are never both retained; and when
\* one is retained and the other removed, and the removed one collides with no
\* third input event, the retained one has the equal or higher score.
C3_ScoreMonotonePair ==
    pc = "dedupliziert" =>
        \A i, j \in Positionen :
            Kollidieren(termine, i, j) =>
                /\ ~(ImErgebnis(i) /\ ImErgebnis(j))
                /\ ( /\ ImErgebnis(i)
                     /\ ~ImErgebnis(j)
                     /\ \A k \in Positionen \ {i} : ~Kollidieren(termine, j, k) )
                   => Punkte(termine[i]) >= Punkte(termine[j])

\* C3 witness: the better of two colliding events comes second in the input
\* and is the one retained; a third event of the day collides with neither.
C3_Witness ==
    /\ pc = "dedupliziert"
    /\ Len(termine) = 3
    /\ \E i, j \in Positionen :
          /\ Kollidieren(termine, i, j)
          /\ j < i
          /\ ImErgebnis(i)
          /\ ~ImErgebnis(j)
          /\ Punkte(termine[i]) > Punkte(termine[j])
          /\ \A k \in Positionen \ {i} : ~Kollidieren(termine, j, k)
          /\ \E k \in Positionen \ {i, j} : Kalendertag(termine[k]) = Kalendertag(termine[j])

\* the input without the event at position j, and where position i goes
Ohne(ts, j) == [k \in 1..(Len(ts) - 1) |-> IF k < j THEN ts[k] ELSE ts[k + 1]]

OhnePosition(i, j) == IF i < j THEN i ELSE i - 1

\* entferne_duplikate on the list ts retains the event at position i
Behaelt(ts, i) == LET e == entferne_duplikate(ts) IN \E k \in 1..Len(e) : e[k] = i

\* the events of the input on calendar day d, and where position i goes
Tagesliste(ts, d) == SelectSeq(ts, LAMBDA t : Kalendertag(t) = d)

Tagesposition(ts, i) ==
    Cardinality({k \in 1..i : Kalendertag(ts[k]) = Kalendertag(ts[i])})

\* a is a character-level substring of b
Enthalten(a, b) == \E i \in 0..(Len(b) - Len(a)) : SubSeq(b, i + 1, i + Len(a)) = a

-----------------------------------------------------------------------------
\* C5: of two input events on the same day, the key of one being a substring
\* of the key of the other, entferne_duplikate returns only the one with the
\* higher score.
C5_SubstringRule ==
    ( /\ pc = "dedupliziert"
      /\ Len(termine) = 2
      /\ Kalendertag(termine[1]) = Kalendertag(termine[2])
      /\ \/ Enthalten(_normalisiere(termine[1].name), _normalisiere(termine[2].name))
         \/ Enthalten(_normalisiere(termine[2].name), _normalisiere(termine[1].name)) )
    => /\ Punkte(termine[1]) > Punkte(termine[2]) => ergebnis = <<1>>
       /\ Punkte(termine[2]) > Punkte(termine[1]) => ergebnis = <<2>>

\* C5 witness: the shorter name with the lower score comes first and only the
\* longer one with the higher score is returned.
C5_Witness ==
    /\ pc = "dedupliziert"
    /\ Len(termine) = 2
    /\ Kalendertag(termine[1]) = Kalendertag(termine[2])
    /\ _normalisiere(termine[1].name) # <<>>
    /\ Len(_normalisiere(termine[1].name)) < Len(_normalisiere(termine[2].name))
    /\ Enthalten(_normalisiere(termine[1].name), _normalisiere(termine[2].name))
    /\ Punkte(termine[1]) < Punkte(termine[2])
    /\ ergebnis = <<2>>

\* C7: whether an event is retained is decided by the events of its own
\* calendar day alone: it is retained exactly if it is retained when the
\* events of all other days are left out of the input (so neither the presence
\* nor the name nor the score of an event on another day has any influence).
C7_Bucketing ==
    pc = "dedupliziert" =>
        \A d \in Kalendertage :
            LET allein == entferne_duplikate(Tagesliste(termine, d))
            IN \A i \in Positionen :
                  Kalendertag(termine[i]) = d =>
                      (ImErgebnis(i) <=>
                          \E k \in 1..Len(allein) : allein[k] = Tagesposition(termine, i))

\* C7 witness: two events with the same name on different days are both
\* retained, the one with the lower score too, while a duplicate on the same
\* day is removed.
C7_Witness ==
    /\ pc = "dedupliziert"
    /\ Len(termine) = 3
    /\ Len(ergebnis) = 2
    /\ \E i, j \in Positionen :
          /\ Kalendertag(termine[i]) # Kalendertag(termine[j])
          /\ termine[i].name = termine[j].name
          /\ termine[i].name # <<>>
          /\ Punkte(termine[i]) < Punkte(termine[j])
          /\ ImErgebnis(i)
          /\ ImErgebnis(j)

\* C8: an input event whose key is neither equal to, nor contained in, nor
\* containing the key of any other input event of its day is retained.
C8_NonDuplicatesRetained ==
    pc = "dedupliziert" =>
        \A i \in Positionen :
            (\A j \in Positionen : ~Kollidieren(termine, i, j)) => ImErgebnis(i)

\* C8 witness: two events of one day with unrelated names are both retained
\* (a third event of that day is a duplicate and removed).
C8_Witness ==
    /\ pc = "dedupliziert"
    /\ Len(termine) = 3
    /\ Len(ergebnis) = 2
    /\ \A i, j \in Positionen : Kalendertag(termine[i]) = Kalendertag(termine[j])
    /\ \E i \in Positionen :
          /\ \A j \in Positionen : ~Kollidieren(termine, i, j)
          /\ ImErgebnis(i)

\* C10 (as claimed): an event whose name has an empty key is a cluster of its
\* own: it is retained, and no other event is retained or removed because of
\* it (stated for inputs in which it is the only such event).
C10_EmptyNameSingleton ==
    Dedupliziert =>
        \A i \in Positionen :
            ( /\ _normalisiere(termine[i].name) = <<>>
              /\ \A j \in Positionen \ {i} : _normalisiere(termine[j].name) # <<>> )
            => /\ ImErgebnis(i)
               /\ \A j \in Positionen \ {i} :
                     ImErgebnis(j) <=> Behaelt(Ohne(termine, i), OhnePosition(j, i))

-----------------------------------------------------------------------------
\* C4: of two events on the same day with equal keys and different quelle,
\* which collide with no third event, exactly one is retained: the one with
\* the higher score, and with equal scores the earlier one of the input.
C4_ExactDuplicateAcrossSources ==
    pc = "dedupliziert" =>
        \A i, j \in Positionen :
            ( /\ i < j
              /\ Kalendertag(termine[i]) = Kalendertag(termine[j])
              /\ _normalisiere(termine[i].name) = _normalisiere(termine[j].name)
              /\ termine[i].quelle # termine[j].quelle
              /\ \A k \in Positionen \ {i, j} :
                    ~Kollidieren(termine, i, k) /\ ~Kollidieren(termine, j, k) )
            => IF Punkte(termine[j]) > Punkte(termine[i])
               THEN ImErgebnis(j) /\ ~ImErgebnis(i)
               ELSE ImErgebnis(i) /\ ~ImErgebnis(j)

\* C4 witness: two events of different sources with equal scores whose names
\* differ in case only; the earlier one is retained, next to a third event of
\* that day with another name.
C4_Witness ==
    /\ pc = "dedupliziert"
    /\ Len(termine) = 3
    /\ Len(ergebnis) = 2
    /\ \A i, j \in Positionen : Kalendertag(termine[i]) = Kalendertag(termine[j])
    /\ \E i, j \in Positionen :
          /\ i < j
          /\ termine[i].name # termine[j].name
          /\ _normalisiere(termine[i].name) = _normalisiere(termine[j].name)
          /\ termine[i].quelle # termine[j].quelle
          /\ Punkte(termine[i]) = Punkte(termine[j])
          /\ ImErgebnis(i)
          /\ ~ImErgebnis(j)

-----------------------------------------------------------------------------
\* the list of words of a name: lower-cased maximal runs of word characters,
\* separated by punctuation or whitespace
RECURSIVE Woerter(_, _)
Woerter(s, wort) ==
    IF s = <<>> THEN (IF wort = <<>> THEN <<>> ELSE <<wort>>)
    ELSE IF Head(s) \in Wortzeichen
         THEN Woerter(Tail(s), Append(wort, lower_zeichen(Head(s))))
         ELSE (IF wort = <<>> THEN <<>> ELSE <<wort>>) \o Woerter(Tail(s), <<>>)

\* two names differ in letter case, punctuation and whitespace only
GleichBisAufSchreibweise(a, b) == Woerter(a, <<>>) = Woerter(b, <<>>)

\* C6 (as claimed): two names that differ only in letter case, punctuation
\* and whitespace have the same comparison key, and of two events with such
\* names on the same day only one is retained.
C6_PunctuationCaseNormalization ==
    ( /\ pc = "dedupliziert"
      /\ Len(termine) = 2
      /\ Kalendertag(termine[1]) = Kalendertag(termine[2])
      /\ GleichBisAufSchreibweise(termine[1].name, termine[2].name) )
    => /\ _normalisiere(termine[1].name) = _normalisiere(termine[2].name)
       /\ Len(ergebnis) = 1

-----------------------------------------------------------------------------
\* minutes since the start of the year 0 of a calendar with 31-day months:
\* ordered as the datetime values are
Zeitpunkt(t) ==
    (((t.datum.jahr * 12 + t.datum.monat) * 31 + t.datum.tag) * 24 + t.datum.stunde) * 60
    + t.datum.minute

\* the time label corresponds to the time of day of datum
ZeitangabeStimmig(t) ==
    \/ t.datum.stunde = 0 /\ t.uhrzeit = SIEHE_WEBSITE
    \/ t.datum.stunde = 19 /\ t.uhrzeit = UHR_19

\* C9 (as claimed): the final list is in ascending calendar-date order, and
\* events of the same calendar date are ordered by time label and then by name
\* (stated for inputs whose time labels correspond to datum, where it already
\* fails).
C9_SortedByDateLabelName ==
    (pc = "sortiert" /\ \A i \in Positionen : ZeitangabeStimmig(termine[i])) =>
        \A k \in 1..(Len(ergebnis) - 1) :
            LET a == termine[ergebnis[k]]
                b == termine[ergebnis[k + 1]]
            IN \/ KeyKleiner(Kalendertag(a), Kalendertag(b))
               \/ /\ Kalendertag(a) = Kalendertag(b)
                  /\ \/ TextKleiner(a.uhrzeit, b.uhrzeit)
                     \/ a.uhrzeit = b.uhrzeit /\ ~TextKleiner(b.name, a.name)

\* C9 (amended): the final list is in ascending order of datum (calendar date
\* and time of day), so in ascending calendar-date order; events with the same
\* datum are ordered by time label and then by name.
C9_SortedByDatumLabelName ==
    pc = "sortiert" =>
        \A k \in 1..(Len(ergebnis) - 1) :
            LET a == termine[ergebnis[k]]
                b == termine[ergebnis[k + 1]]
            IN /\ ~KeyKleiner(Kalendertag(b), Kalendertag(a))
               /\ \/ Zeitpunkt(a) < Zeitpunkt(b)
                  \/ /\ Zeitpunkt(a) = Zeitpunkt(b)
                     /\ \/ TextKleiner(a.uhrzeit, b.uhrzeit)
                        \/ a.uhrzeit = b.uhrzeit /\ ~TextKleiner(b.name, a.name)

\* C9 witness: the sort has moved events, and the list holds two events of one
\* day of which the earlier by time of day has the greater time label.
C9_Witness ==
    /\ pc = "sortiert"
    /\ Len(ergebnis) = 3
    /\ ergebnis # <<1, 2, 3>>
    /\ \E k \in 1..2 :
          /\ Kalendertag(termine[ergebnis[k]]) = Kalendertag(termine[ergebnis[k + 1]])
          /\ termine[ergebnis[k]].datum.stunde < termine[ergebnis[k + 1]].datum.stunde
          /\ TextKleiner(termine[ergebnis[k + 1]].uhrzeit, termine[ergebnis[k]].uhrzeit)

-----------------------------------------------------------------------------
\* an event whose datum is not in the requested month
Ausserhalb(t) == t.datum.jahr # Ziel.jahr \/ t.datum.monat # Ziel.monat

\* j is a candidate before i in the loop over their day: better score, or the
\* same score and earlier in the input
Vorher(ts, j, i) ==
    \/ Punkte(ts[j]) > Punkte(ts[i])
    \/ Punkte(ts[j]) = Punkte(ts[i]) /\ j < i

\* C11: dedup and the final sort complete on inputs with events outside the
\* requested month; the returned list is in the order of the calendar days,
\* and such an event is retained exactly when no colliding event of its own
\* calendar day, a candidate before it, is retained; the sort keeps it.
C11_OutOfRangeTolerated ==
    /\ pc = "dedupliziert" =>
          /\ \A k \in 1..(Len(ergebnis) - 1) :
                ~KeyKleiner(Kalendertag(termine[ergebnis[k + 1]]),
                            Kalendertag(termine[ergebnis[k]]))
          /\ \A i \in Positionen :
                Ausserhalb(termine[i]) =>
                    (ImErgebnis(i) <=>
                        ~\E j \in Positionen :
                            /\ Kollidieren(termine, i, j)
                            /\ Vorher(termine, j, i)
                            /\ ImErgebnis(j))
    /\ pc = "sortiert" =>
          LET d == entferne_duplikate(termine)
          IN /\ Len(ergebnis) = Len(d)
             /\ \A k \in 1..Len(d) : ImErgebnis(d[k])

\* C11 witness: an event outside the month is retained although an event of
\* the requested month with the same day of the month, a colliding name and a
\* better score is retained too; another event outside the month is removed.
C11_Witness ==
    /\ pc = "sortiert"
    /\ \E i, j, k \in Positionen :
          /\ Ausserhalb(termine[i]) /\ ImErgebnis(i)
          /\ ~Ausserhalb(termine[j]) /\ ImErgebnis(j)
          /\ Namenskollision(termine[i], termine[j])
          /\ Punkte(termine[j]) > Punkte(termine[i])
          /\ Ausserhalb(termine[k]) /\ ~ImErgebnis(k)

-----------------------------------------------------------------------------
\* C12: on the empty input list entferne_duplikate returns the empty list, and
\* the sort that follows leaves it empty.
C12_EmptyInput ==
    (Dedupliziert /\ termine = <<>>) => ergebnis = <<>>

\* C12 witness: dedup and sort have both run on the empty list.
C12_Witness ==
    /\ pc = "sortiert"
    /\ termine = <<>>
    /\ ergebnis = <<>>

-----------------------------------------------------------------------------
\* the four fields the score is claimed to read
Bewertet(t) == <<t.link, t.uhrzeit, t.beschreibung, t.ort>>

\* C13: the score of every event is 2 for a non-empty link, plus 2 for a
\* uhrzeit that is non-empty and neither 'ganztägig' nor 'siehe Website', plus
\* 1 for a non-empty beschreibung, plus 1 for a non-empty ort; it lies in 0..6
\* and two events equal in these four fields have the same score.
C13_ScoreFormula ==
    \A i \in Positionen :
        /\ _termin_score(termine[i]) = Punkte(termine[i])
        /\ _termin_score(termine[i]) \in 0..6
        /\ \A j \in Positionen :
              Bewertet(termine[i]) = Bewertet(termine[j])
                  => _termin_score(termine[i]) = _termin_score(termine[j])

\* C13 witness: dedup has scored an event with all four fields filled (6), and
\* one that differs only in its uhrzeit, 'siehe Website' (4), and in the fields
\* that are not scored.
C13_Witness ==
    /\ pc = "dedupliziert"
    /\ _termin_score(termine[1]) = 6
    /\ termine[2].uhrzeit = SIEHE_WEBSITE
    /\ _termin_score(termine[2]) = 4
    /\ termine[1].quelle # termine[2].quelle

-----------------------------------------------------------------------------
\* the list with kategorie and quelle of every event blanked: two lists that
\* are identical except in these two fields have the same blanked list
OhneHerkunft(ts) ==
    [i \in 1..Len(ts) |-> [ts[i] EXCEPT !.kategorie = "", !.quelle = ""]]

\* C16: entferne_duplikate retains the events at the same input positions, in
\* the same order, as on the list that differs from the input only in having
\* kategorie and quelle blanked (hence as on every list that differs from the
\* input only in kategorie and quelle).
C16_CategorySourceIrrelevant ==
    pc = "dedupliziert" => entferne_duplikate(OhneHerkunft(termine)) = ergebnis

\* C16 witness: of two colliding events with the same score that differ in
\* source and category, one with a category and one without, one is removed.
C16_Witness ==
    /\ pc = "dedupliziert"
    /\ \E i, j \in Positionen :
          /\ Kollidieren(termine, i, j)
          /\ Punkte(termine[i]) = Punkte(termine[j])
          /\ termine[i].quelle # termine[j].quelle
          /\ termine[i].kategorie = ""
          /\ termine[j].kategorie # ""
          /\ ImErgebnis(i)
          /\ ~ImErgebnis(j)

-----------------------------------------------------------------------------
\* C17: no step changes the input list (its length, its order, or a field of
\* one of its events); the returned list is made of input events, each one the
\* event at an input position with the name it has there, and no input
\* position occurs in it twice.
C17_NoInPlaceEdit ==
    /\ [][termine' = termine]_vars
    /\ [](Dedupliziert =>
            /\ \A k \in 1..Len(ergebnis) :
                  /\ ergebnis[k] \in Positionen
                  /\ Liste(termine, ergebnis)[k].name = termine[ergebnis[k]].name
            /\ \A k, l \in 1..Len(ergebnis) : ergebnis[k] = ergebnis[l] => k = l)

\* C17 witness: of three events one is removed and the two others leave in the
\* opposite of their input order; a retained one has a name that differs from
\* its comparison key.
C17_Witness ==
    /\ pc = "dedupliziert"
    /\ Len(termine) = 3
    /\ Len(ergebnis) = 2
    /\ ergebnis[1] > ergebnis[2]
    /\ \E k \in 1..Len(ergebnis) :
          _normalisiere(termine[ergebnis[k]].name) # termine[ergebnis[k]].name

-----------------------------------------------------------------------------
\* the adapter that is called, and what the network gives it
Gerufen == CHOOSE adapter \in DOMAIN netz : TRUE

Quelltext == netz[Gerufen].eintraege

\* C14: every event an adapter returns has a datum in the requested year and
\* month, whatever dates and times the source writes.
C14_MonthBoundary ==
    pc = "zurueck" =>
        \A i \in Positionen :
            /\ termine[i].datum.jahr = anfrage.jahr
            /\ termine[i].datum.monat = anfrage.monat

\* C14 witness: hole_cineworld reads two showings that start on New Year's
\* Eve at 23:30 UTC, one of 2025 and one of 2026; asked for January 2026 it
\* returns one event, on the first of January 2026.
C14_Witness ==
    /\ pc = "zurueck"
    /\ Gerufen = "hole_cineworld"
    /\ anfrage = NEUJAHR
    /\ Len(Quelltext) = 2
    /\ \A k \in 1..2 : Quelltext[k].monat = 12 /\ Quelltext[k].tag = 31
    /\ Quelltext[1].jahr # Quelltext[2].jahr
    /\ Len(termine) = 1
    /\ termine[1].datum.tag = 1

-----------------------------------------------------------------------------
(* C18: the lengths of the text fields                                      *)

\* C18: every event an adapter returns has a name of at most 150 characters,
\* an ort of at most 150 characters and a beschreibung of at most 300
\* characters, whatever the source holds.
C18_FieldLengthBounds ==
    pc = "zurueck" =>
        \A i \in 1..Len(termine) :
            /\ Len(termine[i].name) <= 150
            /\ Len(termine[i].ort) <= 150
            /\ Len(termine[i].beschreibung) <= 300

-----------------------------------------------------------------------------
(* C19: the name and the source of a returned event                         *)

\* C19: every event an adapter returns has a name that is not empty and has
\* no whitespace at its start or its end (also after the cut to 150
\* characters), and a quelle that is not empty.
C19_NameTrimmedSourceSet ==
    pc = "zurueck" =>
        \A i \in 1..Len(termine) :
            /\ termine[i].name # <<>>
            /\ termine[i].name[1] \notin Leerraum
            /\ termine[i].name[Len(termine[i].name)] \notin Leerraum
            /\ termine[i].quelle # ""

-----------------------------------------------------------------------------
(* C20: the time label                                                      *)

\* C20: no source marks an entry as all-day (no adapter reads such a mark),
\* so no returned event is labelled 'ganztägig'; and when the source gives
\* no time of day for any of its entries, every returned event is labelled
\* 'siehe Website': the same in every adapter.
C20_TimeTriState ==
    pc = "zurueck" =>
        /\ \A i \in 1..Len(termine) : termine[i].uhrzeit # GANZTAEGIG
        /\ (\A k \in 1..Len(Quelltext) : Quelltext[k].zeit = <<>>) =>
               \A i \in 1..Len(termine) : termine[i].uhrzeit = SIEHE_WEBSITE

-----------------------------------------------------------------------------
(* C15: a failure of a source                                               *)

\* C15: whatever a source answers (no connection, an unreadable payload, a
\* JSON array at the top level, an hour out of range), the call of its
\* adapter returns a list and no exception reaches main(); the other
\* adapters of the month are called and their events are in the list that
\* goes to entferne_duplikate.
C15_FailureAbsorbed ==
    /\ pc \notin {"ausnahme", "abgebrochen"}
    /\ pc = "gesammelt" =>
           \A adapter \in DOMAIN netz :
               LET r == hole(adapter, netz[adapter], anfrage.jahr, anfrage.monat)
               IN \A i \in 1..Len(r.liste) :
                      \E j \in 1..Len(termine) : termine[j] = r.liste[i]

-----------------------------------------------------------------------------
(* C24: the returned events are pairwise distinct                           *)

\* C24: no two events of the list entferne_duplikate returns have the same
\* calendar day and comparison keys that are equal or of which one is
\* contained in the other.
C24_PairwiseDistinct ==
    pc = "dedupliziert" =>
        \A a, b \in 1..Len(ergebnis) :
            a # b =>
                ~( /\ Kalendertag(termine[ergebnis[a]]) = Kalendertag(termine[ergebnis[b]])
                   /\ Namenskollision(termine[ergebnis[a]], termine[ergebnis[b]]) )

\* C24 witness: two events of one day are returned, and a removed event of
\* that day is a duplicate of the one returned first but not of the one
\* returned after it.
C24_Witness ==
    /\ pc = "dedupliziert"
    /\ \E a, b \in 1..Len(ergebnis) :
          /\ a < b
          /\ Kalendertag(termine[ergebnis[a]]) = Kalendertag(termine[ergebnis[b]])
          /\ \E j \in Positionen :
                /\ ~ImErgebnis(j)
                /\ Kollidieren(termine, j, ergebnis[a])
                /\ ~Kollidieren(termine, j, ergebnis[b])

-----------------------------------------------------------------------------
(* C28: a removed event has a representative                                *)

\* C28: for every input event that entferne_duplikate does not return there
\* is a returned event of the same calendar day whose comparison key is equal
\* to, contains or is contained in the key of the removed one and whose score
\* is not lower.
C28_RemovedHasRepresentative ==
    pc = "dedupliziert" =>
        \A j \in Positionen :
            ~ImErgebnis(j) =>
                \E i \in Positionen :
                    /\ ImErgebnis(i)
                    /\ Kollidieren(termine, i, j)
                    /\ Punkte(termine[i]) >= Punkte(termine[j])

\* C28 witness: of three events of one day the second is returned; the first
\* has a lower score, the third has the same score and comes after it.
C28_Witness ==
    /\ pc = "dedupliziert"
    /\ Len(termine) = 3
    /\ ergebnis = <<2>>
    /\ Punkte(termine[1]) < Punkte(termine[2])
    /\ Punkte(termine[3]) = Punkte(termine[2])
    /\ Kollidieren(termine, 2, 1)
    /\ Kollidieren(termine, 2, 3)

-----------------------------------------------------------------------------
(* C29: the comparison key as a canonical form                              *)

\* C29: for every name, _normalisiere applied to the key gives the key again,
\* and the key has no whitespace at its start or end and no two whitespace
\* characters in a row, also when punctuation stands next to whitespace at an
\* end of the name.
C29_CanonicalKey ==
    pc = "dedupliziert" =>
        \A i \in Positionen :
            LET key == _normalisiere(termine[i].name)
            IN /\ _normalisiere(key) = key
               /\ key # <<>> => key[1] \notin Leerraum /\ key[Len(key)] \notin Leerraum
               /\ \A k \in 1..(Len(key) - 1) :
                      ~(key[k] \in Leerraum /\ key[k + 1] \in Leerraum)

-----------------------------------------------------------------------------
(* C27: the months of a run                                                 *)

\* C27: for a start month in 1..12 and anzahl >= 0, berechne_monate returns
\* exactly anzahl pairs, the first being the start, every month in 1..12, and
\* each pair the calendar successor of the one before it.
C27_ContiguousMonths ==
    pc # "start" =>
        /\ Len(monate_liste) = lokal.anzahl_monate
        /\ monate_liste # <<>> =>
               monate_liste[1] = [jahr |-> lokal.jahr, monat |-> lokal.monat]
        /\ \A i \in 1..Len(monate_liste) : monate_liste[i].monat \in 1..12
        /\ \A i \in 1..(Len(monate_liste) - 1) :
               LET a == monate_liste[i]
                   b == monate_liste[i + 1]
               IN IF a.monat = 12
                  THEN b = [jahr |-> a.jahr + 1, monat |-> 1]
                  ELSE b = [jahr |-> a.jahr, monat |-> a.monat + 1]

\* C27 witness: fourteen months from December on pass two turns of the year.
C27_Witness ==
    /\ pc # "start"
    /\ lokal.monat = 12
    /\ Len(monate_liste) = 14
    /\ monate_liste[2] = [jahr |-> lokal.jahr + 1, monat |-> 1]
    /\ monate_liste[14] = [jahr |-> lokal.jahr + 2, monat |-> 1]

-----------------------------------------------------------------------------
(* C21: the adapters are joined before the reconciliation                   *)

\* the results of the adapters main() calls for the month, one after the other
RECURSIVE GesammeltBis(_, _)
GesammeltBis(monat, k) ==
    IF k = 0 THEN <<>>
    ELSE GesammeltBis(monat, k - 1)
         \o hole(REIHENFOLGE[k], netz[REIHENFOLGE[k]], monat.jahr, monat.monat).liste

Gesammelt(monat) == GesammeltBis(monat, Len(REIHENFOLGE))

\* the calls of one pass of the loop, and of the whole run
Monatsfolge(monat) ==
    [i \in 1..(Len(REIHENFOLGE) + 3) |->
        Aufruf(IF i <= Len(REIHENFOLGE) THEN REIHENFOLGE[i]
               ELSE <<"entferne_duplikate", "sort", "generiere_html">>[i - Len(REIHENFOLGE)],
               monat)]

RECURSIVE LaufBis(_)
LaufBis(k) ==
    IF k = 0 THEN <<Aufruf("berechne_monate", lokal)>>
    ELSE LaufBis(k - 1) \o Monatsfolge(monate_liste[k])

\* C21: in every requested month entferne_duplikate is called exactly once and
\* after all adapters of the month have returned, on the concatenation of
\* their results for that month and nothing else; generiere_html is called
\* after entferne_duplikate and sort, on their result.
C21_JoinBeforeReconciliation ==
    pc # "start" =>
        LET soll == LaufBis(Len(monate_liste))
        IN /\ Len(ablauf) <= Len(soll)
           /\ \A i \in 1..Len(ablauf) :
                 /\ Aufruf(ablauf[i].name, ablauf[i]) = soll[i]
                 /\ ablauf[i].name = "generiere_html" =>
                        ablauf[i].termine = Rekonziliert(Gesammelt(ablauf[i]))
           /\ pc = "gesammelt" =>
                 /\ termine = Gesammelt(anfrage)
                 /\ \A i \in Positionen : _im_monat(termine[i].datum, anfrage.jahr, anfrage.monat)
           /\ pc \in {"fertig", "abgebrochen"} =>
                 \A k \in 1..Len(monate_liste) :
                     Cardinality({i \in 1..Len(ablauf) :
                                     ablauf[i] = Aufruf("entferne_duplikate",
                                                        monate_liste[k])}) = 1

-----------------------------------------------------------------------------
(* C25: the paging of hole_vhs ends                                         *)

\* the addresses the i-th invocation has requested in its k-th category, in
\* the order of the requests
RECURSIVE AdressenIn(_, _)
AdressenIn(anfragen, k) ==
    IF anfragen = <<>> THEN <<>>
    ELSE (IF Head(anfragen)[1] = k THEN <<Head(anfragen)[2]>> ELSE <<>>)
         \o AdressenIn(Tail(anfragen), k)

VhsRahmen == {i \in 1..Len(lokal) : lokal[i].adapter = "hole_vhs"}

\* the requests are made category by category, in the order of
\* _VHS_KATEGORIEN
Kategorienfolge(anfragen) ==
    \A a, b \in 1..Len(anfragen) : a < b => anfragen[a][1] <= anfragen[b][1]

\* C25: whatever chain of 'browse/forward' links the site serves, hole_vhs
\* requests at most 5 pages of a category and none of them twice, goes on
\* with the next category, and every invocation returns.
C25_PagingTerminates ==
    /\ [](\A i \in VhsRahmen :
            /\ Kategorienfolge(lokal[i].z.anfragen)
            /\ \A k \in 1..Len(_VHS_KATEGORIEN) :
                  LET adressen == AdressenIn(lokal[i].z.anfragen, k)
                  IN /\ Len(adressen) <= 5
                     /\ \A a, b \in 1..Len(adressen) : a # b => adressen[a] # adressen[b]
                     /\ lokal[i].z.fertig => Len(adressen) >= 1)
    /\ \A i \in 1..MaxAufrufe :
          (Len(lokal) >= i) ~> (Len(lokal) >= i /\ lokal[i].z.fertig)

\* an invocation has returned; in the first category it stopped after the
\* fifth page although that page has a link to a page it has not requested
C25_Witness ==
    \E i \in VhsRahmen :
        LET adressen == AdressenIn(lokal[i].z.anfragen, 1)
        IN /\ lokal[i].z.fertig
           /\ Len(adressen) = 5
           /\ ~Abruf(netz["hole_vhs"], adressen[5]).fehler
           /\ Abruf(netz["hole_vhs"], adressen[5]).weiter
                 \in DOMAIN netz["hole_vhs"] \ {adressen[n] : n \in 1..5}
           /\ AdressenIn(lokal[i].z.anfragen, 7) # <<>>

-----------------------------------------------------------------------------
(* C26: the duplicates hole_vhs removes itself                              *)

\* the invocations of hole_vhs that have returned
VhsZurueck == {i \in VhsRahmen : lokal[i].z.fertig}

\* the entries a request of hole_vhs gets to read
Gelesen(web, url) == IF Abruf(web, url).fehler THEN <<>> ELSE Abruf(web, url).eintraege

\* the first entry of the site with the name and day of the event t, in the
\* order of the categories and their pages, gave t its link
ErsterFund(anfragen, web, t) ==
    \E a \in 1..Len(anfragen) :
        LET eintraege == Gelesen(web, anfragen[a][2])
            passt(e) == Gekuerzt(strip(e.name), 150) = t.name /\ e.tag = t.datum.tag
        IN /\ \E n \in 1..Len(eintraege) :
                 /\ passt(eintraege[n])
                 /\ eintraege[n].link = t.link
                 /\ \A m \in 1..(n - 1) : ~passt(eintraege[m])
           /\ \A b \in 1..(a - 1) :
                 LET davor == Gelesen(web, anfragen[b][2])
                 IN \A n \in 1..Len(davor) : ~passt(davor[n])

\* C26: no two events an invocation of hole_vhs returns have the same name
\* and the same calendar day, the one kept is the first found, and a second
\* invocation on the same site returns the same list as the first.
C26_VhsDedupInvocationScoped ==
    /\ \A i \in VhsZurueck :
          LET ts == lokal[i].z.termine
          IN /\ \A a, b \in 1..Len(ts) :
                   a # b => ~(ts[a].name = ts[b].name
                              /\ Kalendertag(ts[a]) = Kalendertag(ts[b]))
             /\ \A a \in 1..Len(ts) :
                   ErsterFund(lokal[i].z.anfragen, netz["hole_vhs"], ts[a])
    /\ \A i, j \in VhsZurueck : lokal[i].z.termine = lokal[j].z.termine

\* the part of C26 on the seen-set alone
C26_ZweiterAufrufGleich ==
    \A i, j \in VhsZurueck : lokal[i].z.termine = lokal[j].z.termine

-----------------------------------------------------------------------------
(* C30: the paging of hole_cineworld                                        *)

CineRahmen == {i \in 1..Len(lokal) : lokal[i].adapter = "hole_cineworld"}

\* after this answer to the request of page n the loop of the day asks for
\* the next page
GehtWeiter(antwort, n) ==
    /\ antwort.art = "ok"
    /\ antwort.wurzel = "objekt"
    /\ antwort.showings # <<>>
    /\ n < antwort.page_count

\* the order of the requests: the first is for page 1 of day 1; after a
\* request the next one is for the next page of the day if the answer lets
\* the loop go on, else for page 1 of the next day (of the pages from
\* MaxSeite on only the first request is known)
CinePaging ==
    \A i \in CineRahmen :
        LET z == lokal[i].z
            api == netz["hole_cineworld"]
            a == z.anfragen
            bleibt(n) == GehtWeiter(CineAbruf(api, a[n][1], a[n][2]), a[n][2])
        IN /\ a # <<>> => a[1] = <<1, 1>>
           /\ \A n \in 1..(Len(a) - 1) :
                 \/ bleibt(n) /\ a[n + 1] = <<a[n][1], a[n][2] + 1>>
                 \/ /\ a[n][2] < MaxSeite => ~bleibt(n)
                    /\ a[n + 1] = <<a[n][1] + 1, 1>>
           /\ (a # <<>> /\ a[Len(a)][1] < z.tag /\ a[Len(a)][2] < MaxSeite) => ~bleibt(Len(a))
           /\ z.tag > 1 => (a # <<>> /\ a[Len(a)][1] >= z.tag - 1)

\* C30: for each day hole_cineworld asks for the pages 1, 2, 3, ... in this
\* order and leaves the day at the first request that fails or has a status
\* other than 200, the first page without showings, or the first page whose
\* number is not below its _page_count; the loop of a day ends whatever the
\* API answers, so that every invocation returns.
C30_CineworldPaging ==
    /\ []CinePaging
    /\ \A i \in 1..MaxAufrufe :
          (Len(lokal) >= i) ~> (Len(lokal) >= i /\ lokal[i].z.fertig)

-----------------------------------------------------------------------------
(* C23: an adapter one of whose requests timed out                          *)

\* a request of the invocation timed out: the site serves the address, and
\* the request for it raised
ZeitUeberschritten(z, web) ==
    \E a \in 1..Len(z.anfragen) :
        z.anfragen[a][2] \in DOMAIN web /\ web[z.anfragen[a][2]].fehler

\* C23: an invocation of hole_vhs one of whose requests timed out, be it the
\* first or a later one, returns no events.
C23_TimedOutContributesNothing ==
    \A i \in VhsZurueck :
        ZeitUeberschritten(lokal[i].z, netz["hole_vhs"]) => lokal[i].z.termine = <<>>

-----------------------------------------------------------------------------
(* C22: adapters can be invoked side by side                                *)

\* what the adapter returns when it is invoked alone
Allein(adapter, quelle, jahr, monat) ==
    IF adapter = "hole_vhs" THEN hole_vhs(quelle, jahr, monat)
    ELSE IF adapter = "hole_cineworld" THEN hole_cineworld(quelle, jahr, monat)
    ELSE hole(adapter, quelle, jahr, monat)

\* C22: however the steps of two or more invocations (of the same or of
\* different adapters, for the same or for different months) are interleaved,
\* each invocation returns the list it returns when it runs alone on the same
\* answers of the sources.
C22_ConcurrentInvocations ==
    \A i \in 1..Len(lokal) :
        lokal[i].z.fertig =>
            LET z == lokal[i].z
            IN z.termine = Allein(lokal[i].adapter, netz[lokal[i].adapter],
                                  z.jahr, z.monat).liste

\* two invocations of hole_vhs for the same month: the second has returned
\* the course while the first, which has read the course too, is still at
\* work
C22_Witness ==
    /\ Len(lokal) = 2
    /\ lokal[1].adapter = "hole_vhs" /\ lokal[2].adapter = "hole_vhs"
    /\ lokal[1].z.monat = lokal[2].z.monat
    /\ lokal[2].z.fertig /\ lokal[2].z.termine # <<>>
    /\ ~lokal[1].z.fertig /\ lokal[1].z.gesehen # {}

====
